---- MODULE Spec2Model ----
(***************************************************************************)
(* ReportClaw: the annual-report parser (src/reportclaw/main.py).          *)
(*                                                                         *)
(* A text (a Python str) is a sequence of Unicode code points, so that the *)
(* regular expressions of the parser are computed character by character.  *)
(* Offsets into a text are Python's, counted from 0: text[a:b] is          *)
(* Slice(text, a, b).  An absent text (Python's None) is the value None,   *)
(* which is no text; an absent page number or offset is NoIndex.           *)
(***************************************************************************)
EXTENDS Integers, Sequences, FiniteSets, TLC

None == <<-1>>
NoIndex == -1

\* "\n", "\r", "\x0c" and " "
NL == 10
CR == 13
FF == 12
SP == 32

MinOf(S) == CHOOSE x \in S : \A y \in S : x <= y
MaxOf(S) == CHOOSE x \in S : \A y \in S : x >= y
\* the least offset of a set of matches, -1 when there is none
FirstOf(S) == IF S = {} THEN -1 ELSE MinOf(S)

\* text[a:b] with 0 <= a <= b, b clipped to len(text)
Slice(t, a, b) == SubSeq(t, a + 1, IF b < Len(t) THEN b ELSE Len(t))

\* the characters that are not -1, in order
Kept(u) == SelectSeq(u, LAMBDA c : c # -1)

\* The decimal digits of Unicode: the digit zero of each script, which the
\* digits one to nine follow.  0-9 are the digits of the pattern class [0-9].
DigitZeros == {
    48, 1632, 1776, 1984, 2406, 2534, 2662, 2790, 2918, 3046,
    3174, 3302, 3430, 3558, 3664, 3792, 3872, 4160, 4240, 6112,
    6160, 6470, 6608, 6784, 6800, 6992, 7088, 7232, 7248, 42528,
    43216, 43264, 43472, 43504, 43600, 44016, 65296, 66720, 68912, 69734,
    69872, 69942, 70096, 70384, 70736, 70864, 71248, 71360, 71472, 71904,
    72016, 72784, 73040, 73120, 92768, 92864, 93008, 120782, 120792, 120802,
    120812, 120822, 123200, 123632, 125264, 130032 }
Digits == UNION {z..(z + 9) : z \in DigitZeros}
AsciiDigits == 48..57

\* The white space of Unicode
Spaces ==
    {9, 10, 11, 12, 13, 28, 29, 30, 31, 32, 133, 160, 5760, 8232, 8233, 8239, 8287, 12288}
    \cup 8192..8202

\* \d, and the value int() gives the digit
IsDigit(c) == c \in Digits
DigitValue(c) == c - MaxOf({z \in DigitZeros : z <= c})
\* \s, and what str.strip() removes
IsSpace(c) == c \in Spaces

\* sub occurs in t at offset i (0-based)
LitAt(t, i, sub) ==
    /\ i >= 0
    /\ i + Len(sub) <= Len(t)
    /\ \A k \in 1..Len(sub) : t[i + k] = sub[k]

\* sub in t
Contains(t, sub) == \E i \in 0..(Len(t) - Len(sub)) : LitAt(t, i, sub)
\* t.startswith(sub), t.endswith(sub)
StartsWith(t, sub) == LitAt(t, 0, sub)
EndsWith(t, sub) == LitAt(t, Len(t) - Len(sub), sub)

\* the offset of the first character at or after offset i that is outside
\* the class C (len(t) when there is none): the end of a greedy run C*
RunEnd(t, i, C) ==
    MinOf({j \in i..(Len(t) - 1) : t[j + 1] \notin C} \cup {MaxOf({i, Len(t)})})


\* t.strip()
Between(t, idx) == IF idx = {} THEN <<>> ELSE SubSeq(t, MinOf(idx), MaxOf(idx))
Strip(t) == Between(t, {i \in 1..Len(t) : ~IsSpace(t[i])})

\* re.sub(r"\n+", "\n", t)
CollapseNewlines(t) ==
    Kept([i \in 1..Len(t) |-> IF t[i] = NL /\ i > 1 /\ t[i - 1] = NL THEN -1 ELSE t[i]])

RECURSIVE SplitFrom(_, _)
\* t[k:].split("\n")
SplitFrom(t, k) ==
    LET nls == {i \in k..(Len(t) - 1) : t[i + 1] = NL}
    IN  IF nls = {} THEN <<Slice(t, k, Len(t))>>
        ELSE <<Slice(t, k, MinOf(nls))>> \o SplitFrom(t, MinOf(nls) + 1)

RECURSIVE Glued(_)
\* "".join(parts)
Glued(parts) ==
    IF parts = <<>> THEN <<>>
    ELSE IF Len(parts) = 1 THEN parts[1]
    ELSE Glued(SubSeq(parts, 1, Len(parts) \div 2))
         \o Glued(SubSeq(parts, Len(parts) \div 2 + 1, Len(parts)))

RECURSIVE JoinLines(_)
\* "\n".join(lines)
JoinLines(lines) ==
    IF lines = <<>> THEN <<>>
    ELSE IF Len(lines) = 1 THEN lines[1]
    ELSE lines[1] \o <<NL>> \o JoinLines(Tail(lines))

S_NianDuBaoGao == <<24180, 24230, 25253, 21578>>                  \* 年度报告
S_GuFenYouXianGongSi == <<32929, 20221, 26377, 38480, 20844, 21496>> \* 股份有限公司
S_YouXianGongSi == <<26377, 38480, 20844, 21496>>                 \* 有限公司
S_GongSiDaiMa == <<20844, 21496, 20195, 30721, 65306>>            \* 公司代码：
S_GongSiJianCheng == <<20844, 21496, 31616, 31216, 65306>>        \* 公司简称：
S_NianDuBaoGaoQuanWen == <<24180, 24230, 25253, 21578, 20840, 25991>> \* 年度报告全文
S_MuLu == <<30446, 24405>>                                        \* 目录
S_Mu_Lu == <<30446, 32, 24405>>                                   \* 目 录

\* re.fullmatch(r"\d{1,4}", line)
IsPageNumber(line) == Len(line) \in 1..4 /\ \A i \in 1..Len(line) : IsDigit(line[i])

\* re.fullmatch(r"\d{1,4}\s*/\s*\d{1,4}", line)
IsPageOfPages(line) ==
    LET d1 == RunEnd(line, 0, Digits)
        s1 == RunEnd(line, d1, Spaces)
        s2 == RunEnd(line, s1 + 1, Spaces)
        d2 == RunEnd(line, s2, Digits)
    IN  /\ d1 \in 1..4
        /\ s1 < Len(line) /\ line[s1 + 1] = 47
        /\ d2 - s2 \in 1..4
        /\ d2 = Len(line)

\* re.fullmatch(r"[-+|]{3,}", line)
IsBorder(line) == Len(line) >= 3 /\ \A i \in 1..Len(line) : line[i] \in {45, 43, 124}

\* DropLine with the slip of taking the short-name label anywhere in the line
DropAnyLabel(line) ==
    \/ line = <<>>
    \/ IsPageNumber(line)
    \/ IsPageOfPages(line)
    \/ Contains(line, S_NianDuBaoGao) /\ Contains(line, S_GuFenYouXianGongSi)
    \/ StartsWith(line, S_GongSiDaiMa) \/ Contains(line, S_GongSiJianCheng)
         \/ Contains(line, S_GongSiDaiMa)
    \/ (EndsWith(line, S_GuFenYouXianGongSi) \/ EndsWith(line, S_YouXianGongSi))
         /\ Len(line) <= 30
    \/ Contains(line, S_NianDuBaoGao) /\ Len(line) <= 20
    \/ IsBorder(line)
    \/ Contains(line, S_NianDuBaoGaoQuanWen)

\* The line filter of normalize: the stripped line is dropped
DropLine(line) ==
    \/ line = <<>>
    \/ IsPageNumber(line)
    \/ IsPageOfPages(line)
    \/ Contains(line, S_NianDuBaoGao) /\ Contains(line, S_GuFenYouXianGongSi)
    \/ StartsWith(line, S_GongSiDaiMa) \/ StartsWith(line, S_GongSiJianCheng)
         \/ Contains(line, S_GongSiDaiMa)
    \/ (EndsWith(line, S_GuFenYouXianGongSi) \/ EndsWith(line, S_YouXianGongSi))
         /\ Len(line) <= 30
    \/ Contains(line, S_NianDuBaoGao) /\ Len(line) <= 20
    \/ IsBorder(line)
    \/ Contains(line, S_NianDuBaoGaoQuanWen)

\* text.replace("\r\n", "\n").replace("\r", "\n").replace("\x0c", "\n")
UnifyNewlines(t) ==
    Kept([i \in 1..Len(t) |->
            IF t[i] = CR /\ i < Len(t) /\ t[i + 1] = NL THEN -1
            ELSE IF t[i] \in {CR, FF} THEN NL
            ELSE t[i]])

\* [raw.strip() for raw in raws]
StripAll(raws) == [i \in 1..Len(raws) |-> Strip(raws[i])]

normalize(text) ==
    LET t1 == CollapseNewlines(UnifyNewlines(text))
        stripped == StripAll(SplitFrom(t1, 0))
        lines == SelectSeq(stripped, LAMBDA line : ~DropLine(line))
        joined == JoinLines(lines)
        nospace == SelectSeq(joined, LAMBDA c : c # SP)
    IN  CollapseNewlines(nospace)

(***************************************************************************)
(* The heading grammars.  Each regular expression of the parser is read   *)
(* here as the deterministic match it performs: the character classes that *)
(* follow one another in a pattern are disjoint, so a greedy run ends at   *)
(* the first character outside its class and no shorter run can match.     *)
(* An operator that names a match gives an offset, -1 when there is none.  *)
(***************************************************************************)
CnNumerals == {19968, 20108, 19977, 22235, 20116, 20845, 19971, 20843, 20061, 21313} \* [一二三四五六七八九十]
Delims == {12289, 46, 65294, 58, 65306}     \* [、\.．:：]
DunHao == {12289}                           \* 、
OpenBrackets == {65288, 40}                 \* [（(]
CloseBrackets == {65289, 41}                \* [）)]
TocFillers == {46, 183, 8230} \cup Spaces   \* [\.·…\s]

\* (?:^|\n)\s* at offset i (caret: the pattern has the ^ alternative):
\* the offset after it
AnchorEnd(t, i, caret) ==
    IF i < Len(t) /\ t[i + 1] = NL THEN RunEnd(t, i + 1, Spaces)
    ELSE IF caret /\ i = 0 THEN RunEnd(t, 0, Spaces)
    ELSE -1

\* a run [b, e) of 1..max characters followed by a character of closers: e
OrdinalEndIf(t, b, e, max, closers) ==
    IF e - b \in 1..max /\ e < Len(t) /\ t[e + 1] \in closers THEN e ELSE -1

\* ([一二三四五六七八九十]{1,3}|\d{1,2}) at offset b, followed by a delimiter:
\* the offset of the delimiter
SeqOrdinalEnd(t, b, delims) ==
    MaxOf({-1, OrdinalEndIf(t, b, RunEnd(t, b, CnNumerals), 3, delims),
               OrdinalEndIf(t, b, RunEnd(t, b, Digits), 2, delims)})

\* [（(][一二三四五六七八九十0-9]{1,3}[）)] at offset b: the offset of the
\* closing bracket
BracketOrdinalEnd(t, b) ==
    IF b < Len(t) /\ t[b + 1] \in OpenBrackets
    THEN OrdinalEndIf(t, b + 1, RunEnd(t, b + 1, CnNumerals \cup AsciiDigits), 3, CloseBrackets)
    ELSE -1

\* the offset after the delimiter or closing bracket at offset e
After(e) == IF e < 0 THEN -1 ELSE e + 1

\* the heading prefix at offset b, after the anchor: the offset after it
\*   "seq":     ([一二三四五六七八九十]{1,3}|\d{1,2})[、\.．:：]
\*   "bracket": [（(][一二三四五六七八九十0-9]{1,3}[）)]
\*   "major":   ([一二三四五六七八九十]{1,3}|\d{1,2})、
PrefixEnd(t, b, kind) ==
    IF b < 0 THEN -1
    ELSE IF kind = "seq" THEN After(SeqOrdinalEnd(t, b, Delims))
    ELSE IF kind = "bracket" THEN After(BracketOrdinalEnd(t, b))
    ELSE After(SeqOrdinalEnd(t, b, DunHao))

\* the heading at offset i: (?:^|\n)\s* (for "major" and when ~caret: \n\s*)
\* and the heading prefix; the offset after the prefix
HeadingEnd(t, i, kind, caret) == PrefixEnd(t, AnchorEnd(t, i, caret), kind)

\* the ordinal token of the sequential heading at offset i: m.group(1)
OrdinalTokenFrom(t, b) == Slice(t, b, SeqOrdinalEnd(t, b, Delims))
OrdinalToken(t, i) == OrdinalTokenFrom(t, AnchorEnd(t, i, TRUE))

\* the end of the line that holds offset a: the greedy end of [^\n]*
LineEnd(t, a) == MinOf({Len(t)} \cup {j \in a..(Len(t) - 1) : t[j + 1] = NL})

\* ([^\n]{1,max}) at offset a: the offset where the title ends (a when the
\* title is empty, that is when the pattern does not match)
TitleEnd(t, a, max) == MinOf({a + max, LineEnd(t, a)})

\* the title group of a titled heading whose prefix ends at offset after:
\*   "seq", "bracket":  \s*([^\n]{1,80})      "major":  ([^\n]{1,60})
\* A title that could only be made of trailing blanks holds no keyword and
\* ends the text; it is left out.
TitleFrom(t, after, kind) ==
    IF after < 0 THEN -1 ELSE IF kind = "major" THEN after ELSE RunEnd(t, after, Spaces)
TitleTo(t, a, kind) ==
    IF a < 0 THEN -1 ELSE TitleEnd(t, a, IF kind = "major" THEN 60 ELSE 80)
HasTitle(t, a, kind) == a >= 0 /\ TitleTo(t, a, kind) > a

\* One of the titled-heading patterns matches at offset i
\*   "seq":     (?:^|\n)\s*([一二三四五六七八九十]{1,3}|\d{1,2})[、\.．:：]\s*([^\n]{1,80})
\*   "bracket": (?:^|\n)\s*[（(][一二三四五六七八九十0-9]{1,3}[）)]\s*([^\n]{1,80})
\*   "major":   (?:\n\s*([一二三四五六七八九十]{1,3}|\d{1,2})、([^\n]{1,60}))
TitledHeadingAt(t, i, kind) ==
    HasTitle(t, TitleFrom(t, HeadingEnd(t, i, kind, kind # "major"), kind), kind)

\* any(kw in title for kw in keywords)
AnyKeywordIn(title, keywords) ==
    \E k \in 1..Len(keywords) : Contains(title, keywords[k])

RECURSIVE FirstTitledHeading(_, _, _, _)
\* the match whose title is [a, e): its start i if the title holds a keyword,
\* else the next match, from the end of this one
TitledOrNext(t, i, a, e, kind, keywords) ==
    IF AnyKeywordIn(Slice(t, a, e), keywords) THEN i
    ELSE FirstTitledHeading(t, e, kind, keywords)
TitledFrom(t, i, a, kind, keywords) == TitledOrNext(t, i, a, TitleTo(t, a, kind), kind, keywords)
TitledMatch(t, i, kind, keywords) ==
    IF i < 0 THEN -1
    ELSE TitledFrom(t, i, TitleFrom(t, HeadingEnd(t, i, kind, kind # "major"), kind),
                    kind, keywords)

\* for m in re.finditer(pattern, t): the start of the first match, among the
\* non-overlapping matches taken from left to right at or after offset pos,
\* whose title holds one of the keywords
FirstTitledHeading(t, pos, kind, keywords) ==
    TitledMatch(t, FirstOf({i \in pos..(Len(t) - 1) : TitledHeadingAt(t, i, kind)}),
                kind, keywords)

\* [^\n]{0,max}kw at offset a: kw begins at most max characters after a, on
\* the same line (max = -1: [^\n]*kw, no limit)
KeywordAhead(t, a, max, kw) ==
    \E k \in a..LineEnd(t, a) : (max < 0 \/ k <= a + max) /\ LitAt(t, k, kw)

\* \s*[^\n]{0,max}kw after a heading prefix that ends at offset after
KeywordAfter(t, after, max, kw) ==
    after >= 0 /\ KeywordAhead(t, RunEnd(t, after, Spaces), max, kw)

\* the keyword-heading pattern matches at offset i, kind "seq":
\*   (?:^|\n)\s*([一二三四五六七八九十]{1,3}|\d{1,2})[、\.．:：]\s*[^\n]*kw[^\n]*
\* or kind "bracket":
\*   (?:^|\n)\s*[（(]([一二三四五六七八九十0-9]{1,3})[）)]\s*[^\n]*kw[^\n]*
\* with the keyword at most max characters after the heading's blanks
KeywordHeadingAt(t, i, kind, max, kw) ==
    KeywordAfter(t, HeadingEnd(t, i, kind, TRUE), max, kw)

\* m.start() of the leftmost match
KeywordHeadingSearch(t, kind, max, kw) ==
    FirstOf({i \in 0..(Len(t) - 1) : KeywordHeadingAt(t, i, kind, max, kw)})

\* some line of t after an anchor begins with one of the literals lits
LiteralAt(t, b, lits) == b >= 0 /\ \E lit \in lits : LitAt(t, b, lit)

\* re.search(pattern, t).start() for a pattern (?:^|\n)\s*(lit1|lit2|...) or,
\* without caret, \n\s*(lit1|...)
FirstAnchoredLiteral(t, caret, lits) ==
    FirstOf({i \in 0..(Len(t) - 1) : LiteralAt(t, AnchorEnd(t, i, caret), lits)})

(***************************************************************************)
(* The section slicers.                                                    *)
(***************************************************************************)
MAJOR_HEADING_KEYWORDS == <<
    <<26680, 24515, 31454, 20105, 21147>>,                                \* 核心竞争力
    <<26680, 24515, 31454, 20105, 21147, 20998, 26512>>,                  \* 核心竞争力分析
    <<20027, 33829, 19994, 21153, 20998, 26512>>,                         \* 主营业务分析
    <<20027, 33829, 19994, 21153>>,                                       \* 主营业务
    <<38750, 20027, 33829, 19994, 21153, 20998, 26512>>,                  \* 非主营业务分析
    <<38750, 20027, 33829, 19994, 21153>>,                                \* 非主营业务
    <<36164, 20135, 21450, 36127, 20538, 29366, 20917, 20998, 26512>>,    \* 资产及负债状况分析
    <<36164, 20135, 21450, 36127, 20538>>,                                \* 资产及负债
    <<36164, 20135, 36127, 20538>>,                                       \* 资产负债
    <<25237, 36164, 29366, 20917, 20998, 26512>>,                         \* 投资状况分析
    <<25237, 36164, 29366, 20917>>,                                       \* 投资状况
    <<20844, 21496, 27835, 29702>>,                                       \* 公司治理
    <<37325, 35201, 20107, 39033>>,                                       \* 重要事项
    <<20844, 21496, 26410, 26469, 21457, 23637, 30340, 23637, 26395>>,    \* 公司未来发展的展望
    <<26410, 26469, 21457, 23637, 30340, 23637, 26395>>,                  \* 未来发展的展望
    <<34892, 19994, 24773, 20917>>,                                       \* 行业情况
    <<34892, 19994, 29366, 20917>>,                                       \* 行业状况
    <<25152, 23646, 34892, 19994>>,                                       \* 所属行业
    <<25152, 22788, 34892, 19994>>,                                       \* 所处行业
    <<34892, 19994, 27010, 20917>>,                                       \* 行业概况
    <<20174, 20107, 30340, 20027, 35201, 19994, 21153>>,                  \* 从事的主要业务
    <<20027, 35201, 19994, 21153>>,                                       \* 主要业务
    <<20027, 33829, 19994, 21153>>,                                       \* 主营业务
    <<20844, 21496, 26410, 26469, 21457, 23637, 30340, 23637, 26395>> >>  \* 公司未来发展的展望

\* text[start_idx + 1:]
Rest(text, start_idx) == Slice(text, start_idx + 1, Len(text))

\* Shifted with the slip of taking the offsets of the rest for offsets of the text
Unshifted(start_idx, starts) == starts \ {-1}

\* start_idx + 1 + m.start() for each search of the rest that found a match
Shifted(start_idx, starts) == {start_idx + 1 + p : p \in starts \ {-1}}

\* text[start_idx:min(candidates)].strip(), None when there is no candidate
CutAtFirst(text, start_idx, candidates) ==
    IF candidates = {} THEN None ELSE Strip(Slice(text, start_idx, MinOf(candidates)))

\* text[start_idx:end_idx].strip() with
\* end_idx = min(candidates) if candidates else len(text)
CutAtFirstOrEnd(text, start_idx, candidates) ==
    Strip(Slice(text, start_idx, MinOf(IF candidates = {} THEN {Len(text)} ELSE candidates)))

\* the two finditer loops over text[start_idx + 1:]
TitledCandidates(rest, title_keywords) ==
    {FirstTitledHeading(rest, 0, "seq", title_keywords),
     FirstTitledHeading(rest, 0, "bracket", title_keywords)}

_slice_to_next_heading_with_title_keywords(text, start_idx, title_keywords) ==
    IF start_idx < 0 THEN None
    ELSE CutAtFirst(text, start_idx,
                    Shifted(start_idx, TitledCandidates(Rest(text, start_idx), title_keywords)))

_slice_to_next_major_heading(text, start_idx) ==
    IF start_idx < 0 THEN None
    ELSE CutAtFirst(text, start_idx,
                    Shifted(start_idx, {FirstTitledHeading(Rest(text, start_idx), 0, "major",
                                                           MAJOR_HEADING_KEYWORDS)}))

cn_list == <<
    <<19968>>, <<20108>>, <<19977>>, <<22235>>, <<20116>>,      \* 一 二 三 四 五
    <<20845>>, <<19971>>, <<20843>>, <<20061>>, <<21313>>,      \* 六 七 八 九 十
    <<21313, 19968>>, <<21313, 20108>>, <<21313, 19977>>,       \* 十一 十二 十三
    <<21313, 22235>>, <<21313, 20116>>, <<21313, 20845>>,       \* 十四 十五 十六
    <<21313, 19971>>, <<21313, 20843>>, <<21313, 20061>>,       \* 十七 十八 十九
    <<20108, 21313>> >>                                         \* 二十

\* cn_to_ar, by position in cn_list: "1" .. "20"
ar_list == <<
    <<49>>, <<50>>, <<51>>, <<52>>, <<53>>, <<54>>, <<55>>, <<56>>, <<57>>, <<49, 48>>,
    <<49, 49>>, <<49, 50>>, <<49, 51>>, <<49, 52>>, <<49, 53>>, <<49, 54>>, <<49, 55>>,
    <<49, 56>>, <<49, 57>>, <<50, 48>> >>

\* list.index(x) + 1, 0 when x is not in the list
IndexIn(list, x) == MaxOf({0} \cup {k \in 1..Len(list) : list[k] = x})

\* re.fullmatch(r"\d{1,2}", current_ordinal)
IsArabic(current_ordinal) ==
    Len(current_ordinal) \in 1..2 /\ \A k \in 1..Len(current_ordinal) : IsDigit(current_ordinal[k])

\* CandidatesAfter with the slip of leaving the Arabic candidate out
ChineseCandidateOnly(idx) ==
    IF idx > 0 /\ idx + 1 <= Len(cn_list) THEN <<cn_list[idx + 1]>> ELSE <<>>

\* [nxt_cn, nxt_ar] for the ordinal at position idx of cn_list
CandidatesAfter(idx) ==
    IF idx > 0 /\ idx + 1 <= Len(cn_list) THEN <<cn_list[idx + 1], ar_list[idx + 1]>> ELSE <<>>

_next_ordinal_candidates(current_ordinal) ==
    CandidatesAfter(IF IsArabic(current_ordinal) THEN IndexIn(ar_list, current_ordinal)
                    ELSE IndexIn(cn_list, current_ordinal))

\* for cand in candidates: re.search(rf"(?:\n\s*{cand}、)", rest)
OrdinalStarts(rest, candidates) ==
    {FirstAnchoredLiteral(rest, FALSE, {candidates[k] \o <<12289>>}) : k \in 1..Len(candidates)}

\* a text that Python takes as true: neither None nor ""
Truthy(x) == x # None /\ x # <<>>

\* MajorOrOrdinal with the slip of consulting the ordinal rule alone
OrdinalOnly(text, start_idx, current_ordinal, major_slice) ==
    CutAtFirstOrEnd(text, start_idx,
        Shifted(start_idx, OrdinalStarts(Rest(text, start_idx),
                                         _next_ordinal_candidates(current_ordinal))))

\* if major_slice: return major_slice, else cut at the next ordinal
MajorOrOrdinal(text, start_idx, current_ordinal, major_slice) ==
    IF Truthy(major_slice) THEN major_slice
    ELSE CutAtFirstOrEnd(text, start_idx,
             Shifted(start_idx, OrdinalStarts(Rest(text, start_idx),
                                              _next_ordinal_candidates(current_ordinal))))

_slice_to_next_ordinal(text, start_idx, current_ordinal) ==
    IF start_idx < 0 THEN None
    ELSE MajorOrOrdinal(text, start_idx, current_ordinal,
                        _slice_to_next_major_heading(text, start_idx))

\* re.search(r"(?:\n\s*[（(][一二三四五六七八九十0-9]{1,3}[）)])", rest) and
\* re.search(r"(?:\n\s*(?:[一二三四五六七八九十]{1,3}|\d{1,2})、)", rest)
FirstHeading(rest, kind) ==
    FirstOf({i \in 0..(Len(rest) - 1) : HeadingEnd(rest, i, kind, FALSE) >= 0})

\* SubOrMajor with the slip of leaving out the search for the next major heading
SubOnly(rest) == {FirstHeading(rest, "bracket")}

\* the two searches of the rest: m_sub and m_major
SubOrMajor(rest) == {FirstHeading(rest, "bracket"), FirstHeading(rest, "major")}

_slice_to_next_bracket_heading(text, start_idx) ==
    IF start_idx < 0 THEN None
    ELSE CutAtFirstOrEnd(text, start_idx, Shifted(start_idx, SubOrMajor(Rest(text, start_idx))))

(***************************************************************************)
(* The section extractors.  A list argument that is None or empty (the    *)
(* code tests only its truth) is <<>>.                                     *)
(***************************************************************************)
\* cn_to_arabic: its keys, and its values by the position of the key
cn_to_arabic_keys == SubSeq(cn_list, 1, 12)
cn_to_arabic == SubSeq(ar_list, 1, 12)

\* (?:（o）|\(o\))
Bracketed(o) == {<<65288>> \o o \o <<65289>>, <<40>> \o o \o <<41>>}

\* the start of the first search that matched
FirstMatch(starts) == starts[FirstOf({k \in 1..Len(starts) : starts[k] >= 0} \cup {Len(starts)})]

RECURSIVE KeywordFallback(_, _, _)
\* for kw in keyword_fallback: mk = re.search(rf"(?:^|\n)\s*{kw}", text)
StartOrNext(text, keyword_fallback, k, mk) ==
    IF mk >= 0 THEN mk ELSE KeywordFallback(text, keyword_fallback, k + 1)
KeywordFallback(text, keyword_fallback, k) ==
    IF k > Len(keyword_fallback) THEN -1
    ELSE StartOrNext(text, keyword_fallback, k,
                     FirstAnchoredLiteral(text, TRUE, {keyword_fallback[k]}))

\* the searches m1, m2 (when the ordinal has an arabic form), m3 and m4
OrdinalSearches(text, ordinal_cn, has_arabic, arabic) ==
    << FirstAnchoredLiteral(text, TRUE, {ordinal_cn \o <<12289>>}),
       IF has_arabic THEN FirstAnchoredLiteral(text, TRUE, {arabic \o <<12289>>}) ELSE -1,
       FirstAnchoredLiteral(text, TRUE, Bracketed(ordinal_cn)),
       IF has_arabic THEN FirstAnchoredLiteral(text, TRUE, Bracketed(arabic)) ELSE -1 >>

StartIdx(text, ordinal_cn, keyword_fallback, idx) ==
    FirstMatch(OrdinalSearches(text, ordinal_cn, idx > 0, cn_to_arabic[MaxOf({1, idx})])
               \o <<KeywordFallback(text, keyword_fallback, 1)>>)

extract_section_by_ordinal(text, ordinal_cn, keyword_fallback) ==
    _slice_to_next_ordinal(text,
        StartIdx(text, ordinal_cn, keyword_fallback, IndexIn(cn_to_arabic_keys, ordinal_cn)),
        ordinal_cn)

\* return sliced if sliced, else text[start:].strip()
SlicedOrRest(text, start, sliced) ==
    IF Truthy(sliced) THEN sliced ELSE Strip(Slice(text, start, Len(text)))

\* the body of "if m:" in the first loop, m at offset start
SeqSection(text, start, end_title_keywords) ==
    IF end_title_keywords # <<>>
    THEN SlicedOrRest(text, start,
             _slice_to_next_heading_with_title_keywords(text, start, end_title_keywords))
    ELSE _slice_to_next_ordinal(text, start, OrdinalToken(text, start))

\* the body of "if m:" in the second loop
BracketSection(text, start) ==
    SlicedOrRest(text, start, _slice_to_next_bracket_heading(text, start))

RECURSIVE FirstKeywordHeading(_, _, _, _)
\* for kw in keywords: m = re.search(...): m.start() for the first keyword,
\* from position k of the list, that has a match
HitOrNext(text, kind, keywords, k, start) ==
    IF start >= 0 THEN start ELSE FirstKeywordHeading(text, kind, keywords, k + 1)
FirstKeywordHeading(text, kind, keywords, k) ==
    IF k > Len(keywords) THEN -1
    ELSE HitOrNext(text, kind, keywords, k, KeywordHeadingSearch(text, kind, -1, keywords[k]))

RECURSIVE OrdinalFallback(_, _, _)
\* for o in fallback_ordinals: sec = extract_section_by_ordinal(text, o)
SecOrNext(text, fallback_ordinals, k, sec) ==
    IF Truthy(sec) THEN sec ELSE OrdinalFallback(text, fallback_ordinals, k + 1)
OrdinalFallback(text, fallback_ordinals, k) ==
    IF k > Len(fallback_ordinals) THEN None
    ELSE SecOrNext(text, fallback_ordinals, k,
                   extract_section_by_ordinal(text, fallback_ordinals[k], <<>>))

BracketOrFallback(text, fallback_ordinals, start) ==
    IF start >= 0 THEN BracketSection(text, start)
    ELSE OrdinalFallback(text, fallback_ordinals, 1)

SeqOrBracket(text, keywords, fallback_ordinals, end_title_keywords, start) ==
    IF start >= 0 THEN SeqSection(text, start, end_title_keywords)
    ELSE BracketOrFallback(text, fallback_ordinals,
                           FirstKeywordHeading(text, "bracket", keywords, 1))

extract_section_by_keywords(text, keywords, fallback_ordinals, end_title_keywords) ==
    SeqOrBracket(text, keywords, fallback_ordinals, end_title_keywords,
                 FirstKeywordHeading(text, "seq", keywords, 1))

(***************************************************************************)
(* The end offsets the slicers compute: end_idx of each, NoIndex when the  *)
(* slicer returns before it has one.                                       *)
(***************************************************************************)
\* lines 351-354: end_idx = min(candidates)
TitledEndIdx(text, start_idx, title_keywords) ==
    IF start_idx < 0 THEN NoIndex
    ELSE FirstOf(Shifted(start_idx, TitledCandidates(Rest(text, start_idx), title_keywords)))

\* lines 369-372: end_idx = start_idx + 1 + m.start()
MajorEndIdx(text, start_idx) ==
    IF start_idx < 0 THEN NoIndex
    ELSE FirstOf(Shifted(start_idx, {FirstTitledHeading(Rest(text, start_idx), 0, "major",
                                                        MAJOR_HEADING_KEYWORDS)}))

\* min(candidates) if candidates else len(text)
FirstOrEnd(text, candidates) == MinOf(IF candidates = {} THEN {Len(text)} ELSE candidates)

\* lines 414-429: the end of the major slice when it is taken, else
\* end_idx = min(end_positions) if end_positions else len(text)
OrdinalEndIdx(text, start_idx, current_ordinal) ==
    IF start_idx < 0 THEN NoIndex
    ELSE IF Truthy(_slice_to_next_major_heading(text, start_idx)) THEN MajorEndIdx(text, start_idx)
    ELSE FirstOrEnd(text, Shifted(start_idx, OrdinalStarts(Rest(text, start_idx),
                                                          _next_ordinal_candidates(current_ordinal))))

\* lines 121-122: end_idx = min(candidates) if candidates else len(text)
BracketEndIdx(text, start_idx) ==
    IF start_idx < 0 THEN NoIndex
    ELSE FirstOrEnd(text, Shifted(start_idx, SubOrMajor(Rest(text, start_idx))))

(***************************************************************************)
(* The document.  pages[p + 1] is the raw text layer of page p, as the PDF *)
(* library yields it; pdfminer_extract_text returns the requested pages in *)
(* page order, each followed by a form feed, and nothing for a page the    *)
(* document does not have.                                                 *)
(***************************************************************************)
RECURSIVE PagesText(_, _, _)
PagesText(pages, p, page_numbers) ==
    IF p >= Len(pages) THEN <<>>
    ELSE (IF p \in page_numbers THEN pages[p + 1] \o <<FF>> ELSE <<>>)
         \o PagesText(pages, p + 1, page_numbers)

pdfminer_extract_text(pages, page_numbers) ==
    IF \A p \in page_numbers : p >= Len(pages) THEN <<>>
    ELSE PagesText(pages, 0, page_numbers)

\* if not text: return "", else normalize(text)
NormalizedOrEmpty(text) == IF text = <<>> THEN <<>> ELSE normalize(text)

extract_text(pages, page_numbers) ==
    NormalizedOrEmpty(pdfminer_extract_text(pages, page_numbers))

S_DiSanJie == <<31532, 19977, 33410>>                                   \* 第三节
S_GuanLiCeng == <<31649, 29702, 23618, 35752, 35770, 19982, 20998, 26512>> \* 管理层讨论与分析
S_HeXinJingZhengLiFenXi == <<26680, 24515, 31454, 20105, 21147, 20998, 26512>> \* 核心竞争力分析

\* "目录" in t or "目 录" in t
HasTocMarker(t) == Contains(t, S_MuLu) \/ Contains(t, S_Mu_Lu)

\* 管理层讨论与分析 at offset a: the offset after it
TitleAt(t, a) == IF LitAt(t, a, S_GuanLiCeng) THEN a + Len(S_GuanLiCeng) ELSE -1

\* 第三节\s*管理层讨论与分析 at offset i: the offset after it
SectionThreeAt(t, i) ==
    IF LitAt(t, i, S_DiSanJie) THEN TitleAt(t, RunEnd(t, i + Len(S_DiSanJie), Spaces)) ELSE -1

\* re.search(r"第三节\s*管理层讨论与分析", t).start()
SectionThreeSearch(t) == FirstOf({i \in 0..(Len(t) - 1) : SectionThreeAt(t, i) >= 0})

\* the character c at offset a
CharAt(t, a, c) == a < Len(t) /\ t[a + 1] = c

\* \s*四\s*节 at offset a
FourThenJie(t, a) == CharAt(t, a, 22235) /\ CharAt(t, RunEnd(t, a + 1, Spaces), 33410)

\* re.search(r"第\s*四\s*节|第四节", t) matches
SectionFourSearch(t) ==
    \E i \in 0..(Len(t) - 1) : t[i + 1] = 31532 /\ FourThenJie(t, RunEnd(t, i + 1, Spaces))

RECURSIVE DecimalValue(_)
\* int(digits)
DecimalValue(digits) ==
    IF digits = <<>> THEN 0
    ELSE 10 * DecimalValue(SubSeq(digits, 1, Len(digits) - 1)) + DigitValue(digits[Len(digits)])

\* [\.·…\s]{2,200}(\d{1,4}) from offset f to offset g, the end of the run of
\* fillers: the offset g where the page number begins
PageNumberFrom(t, f, g) ==
    IF f >= 0 /\ g - f \in 2..200 /\ g < Len(t) /\ IsDigit(t[g + 1]) THEN g ELSE -1

\* 第三节\s*管理层讨论与分析[\.·…\s]{2,200}(\d{1,4}) at offset i: the offset
\* where the page number begins
FillersFrom(t, f) == PageNumberFrom(t, f, RunEnd(t, MaxOf({0, f}), TocFillers))
TocEntryAt(t, i) == FillersFrom(t, SectionThreeAt(t, i))

\* (\d{1,4}) at offset g
PageDigits(t, g) == Slice(t, g, MinOf({g + 4, RunEnd(t, g, Digits)}))

\* int(m.group(1)) of the match at offset i
PageNumberAt(t, i) == IF i < 0 THEN NoIndex ELSE DecimalValue(PageDigits(t, TocEntryAt(t, i)))

\* int(m.group(1)) of the first match in toc_text
TocPageNumber(toc_text) ==
    PageNumberAt(toc_text, FirstOf({i \in 0..(Len(toc_text) - 1) : TocEntryAt(toc_text, i) >= 0}))

stop_titles == <<
    <<25253, 21578, 26399, 20869, 26680, 24515, 31454, 20105, 21147, 20998, 26512>>, \* 报告期内核心竞争力分析
    <<26680, 24515, 31454, 20105, 21147, 20998, 26512>>,                  \* 核心竞争力分析
    <<20027, 33829, 19994, 21153, 20998, 26512>>,                         \* 主营业务分析
    <<20844, 21496, 27835, 29702>>,                                       \* 公司治理
    <<37325, 35201, 20107, 39033>>,                                       \* 重要事项
    <<20844, 21496, 26410, 26469, 21457, 23637, 30340, 23637, 26395>>,    \* 公司未来发展的展望
    <<26410, 26469, 21457, 23637, 30340, 23637, 26395>>,                  \* 未来发展的展望
    <<39118, 38505, 22240, 32032>>,                                       \* 风险因素
    <<39118, 38505, 25552, 31034>>,                                       \* 风险提示
    <<32463, 33829, 24773, 20917, 35752, 35770, 19982, 20998, 26512>> >>  \* 经营情况讨论与分析

future_keywords == <<
    <<20844, 21496, 26410, 26469, 21457, 23637, 30340, 23637, 26395>>,    \* 公司未来发展的展望
    <<26410, 26469, 21457, 23637, 30340, 23637, 26395>>,                  \* 未来发展的展望
    <<26410, 26469, 21457, 23637, 23637, 26395>>,                         \* 未来发展展望
    <<21457, 23637, 35268, 21010>>,                                       \* 发展规划
    <<26410, 26469, 35268, 21010>> >>                                     \* 未来规划

\* the limits of extract_mda
TOC_SEARCH_PAGES == 20
TOC_WINDOW == 4
NO_TOC_WINDOW == 6
MIN_START_PAGE == 5
SCAN_PAGES == 200
CAPTURE_PAGES == 200
MIN_OVERVIEW_LEN == 500
MIN_FUTURE_LEN == 200

\* if t and ("目录" in t or "目 录" in t)
IsTocPage(t) == t # <<>> /\ HasTocMarker(t)

\* for p in range(0, 20): the first page whose text holds the contents marker
FindTocPage(pages) ==
    FirstOf({p \in 0..(TOC_SEARCH_PAGES - 1) : IsTocPage(extract_text(pages, {p}))})

\* list(range(toc_page, min(toc_page + 4, 20))), or list(range(0, 6))
TocPages(toc_page) ==
    IF toc_page # NoIndex
    THEN toc_page..(MinOf({toc_page + TOC_WINDOW, TOC_SEARCH_PAGES}) - 1)
    ELSE 0..(NO_TOC_WINDOW - 1)

\* CandidateStartPage with the slip of taking the listed page itself
CandidateWithoutOffset(page_num) ==
    IF page_num # NoIndex /\ page_num >= MIN_START_PAGE THEN page_num ELSE NoIndex

\* lines 195-204: the page before the listed one, if the listed one is
\* plausible
CandidateStartPage(page_num) ==
    IF page_num # NoIndex /\ page_num >= MIN_START_PAGE THEN page_num - 1 ELSE NoIndex

\* OutsideContents with the slip of leaving the contents pages unchecked
MarkerFreeOnly(start_page, toc_pages, check_text) ==
    IF IsTocPage(check_text) THEN NoIndex ELSE start_page

\* lines 216-220: the candidate is dropped when its page holds the contents
\* marker or lies among the contents pages
OutsideContents(start_page, toc_pages, check_text) ==
    IF IsTocPage(check_text) THEN NoIndex
    ELSE IF start_page \in toc_pages THEN NoIndex
    ELSE start_page

\* the validation of a start page taken from the contents
ValidatedStartPage(pages, start_page, toc_pages) ==
    IF start_page = NoIndex THEN NoIndex
    ELSE IF start_page < MIN_START_PAGE THEN NoIndex
    ELSE OutsideContents(start_page, toc_pages, extract_text(pages, {start_page}))

\* the page is neither empty nor a contents page, and holds the marker
OpensSectionThree(page_text) ==
    page_text # <<>> /\ ~HasTocMarker(page_text) /\ SectionThreeSearch(page_text) >= 0

\* ScanForSectionThree with the slip of not passing over the contents pages
ScanWithContentsPages(pages, scan_start) ==
    FirstOf({p \in scan_start..(SCAN_PAGES - 1) :
                 SectionThreeSearch(extract_text(pages, {p})) >= 0})

\* for p in range(scan_start, 200): the first page that matches
ScanForSectionThree(pages, scan_start) ==
    FirstOf({p \in scan_start..(SCAN_PAGES - 1) : OpensSectionThree(extract_text(pages, {p}))})

\* if not page_text: continue -- the pages of range(p, last) that have text
Readable(pages, p, last) == {q \in p..(last - 1) : extract_text(pages, {q}) # <<>>}

RECURSIVE CaptureOver(_, _)
\* CapturePage with the slip of appending the page before the test that
\* ends the loop
CaptureThenStop(pages, later, page_text) ==
    IF SectionFourSearch(page_text) THEN page_text \o <<NL>>
    ELSE page_text \o <<NL>> \o CaptureOver(pages, later)

\* one turn of the capture loop on a page that has text: break on the
\* section-four marker, else mda_text += page_text + "\n" and go on with the
\* later pages
CapturePage(pages, later, page_text) ==
    IF SectionFourSearch(page_text) THEN <<>>
    ELSE page_text \o <<NL>> \o CaptureOver(pages, later)

\* the capture loop over the pages that have text, in page order
CaptureOver(pages, todo) ==
    IF todo = {} THEN <<>>
    ELSE CapturePage(pages, todo \ {MinOf(todo)}, extract_text(pages, {MinOf(todo)}))

\* for p in range(p, last): the text captured until a page matches the
\* section-four marker
CaptureFrom(pages, p, last) == CaptureOver(pages, Readable(pages, p, last))

\* if m3: mda_text = mda_text[m3.start():].strip()
CutFrom(text, m3) == IF m3 >= 0 THEN Strip(Slice(text, m3, Len(text))) ELSE text

\* the captured text cut to begin at the section-three marker
TruncateToSectionThree(text) == CutFrom(text, SectionThreeSearch(text))

\* m_core.start():
\*   (?:^|\n)\s*(?:[一二三四五六七八九十]{1,3}|\d{1,2})[、\.．:：]\s*[^\n]{0,80}核心竞争力分析
CoreHeadingSearch(text) == KeywordHeadingSearch(text, "seq", 80, S_HeXinJingZhengLiFenXi)

\* lines 274-276
OverviewOrAll(text, sliced) ==
    IF Truthy(sliced) THEN sliced ELSE IF text # <<>> THEN Strip(text) ELSE None

\* lines 284-285
CutAtCore(text, overview, m_core) ==
    IF m_core > 0 THEN Strip(Slice(text, 0, m_core)) ELSE overview

\* lines 301-302
CheckedOverview(text, overview) ==
    IF overview # None /\ Len(overview) < MIN_OVERVIEW_LEN
    THEN (IF text # <<>> THEN Strip(text) ELSE overview)
    ELSE overview

\* CheckedFuture with the slip of an inclusive limit
CheckedFutureInclusive(section) ==
    IF section # None /\ Len(section) <= MIN_FUTURE_LEN THEN None ELSE section

\* lines 303-304
CheckedFuture(section) ==
    IF section # None /\ Len(section) < MIN_FUTURE_LEN THEN None ELSE section

(***************************************************************************)
(* The daily report (src/reportclaw/daily_report.py): safe_block, which    *)
(* turns the text of a section into the lines of a paragraph of the PDF.   *)
(***************************************************************************)
\* what str.splitlines() breaks a text at
LineBreaks == {10, 11, 12, 13, 28, 29, 30, 133, 8232, 8233}

\* the characters of str.isdigit() that are not decimal digits
OtherDigits ==
    178..179 \cup {185} \cup 4969..4977 \cup {6618} \cup {8304} \cup 8308..8313
    \cup 8320..8329 \cup 9312..9320 \cup 9332..9340 \cup 9352..9360 \cup {9450}
    \cup 9461..9469 \cup {9471} \cup 10102..10110 \cup 10112..10120
    \cup 10122..10130 \cup 68160..68163 \cup 69216..69224 \cup 69714..69722
    \cup 127232..127242

\* s.isdigit()
isdigit(s) == s # <<>> /\ \A i \in 1..Len(s) : s[i] \in Digits \cup OtherDigits

\* the offset of the first line break at or after offset k, len(t) if none
BreakFrom(t, k) == MinOf({j \in k..(Len(t) - 1) : t[j + 1] \in LineBreaks} \cup {Len(t)})

\* the offset after the line break at offset e: "\r\n" is one break
AfterBreak(t, e) ==
    IF e + 1 < Len(t) /\ t[e + 1] = CR /\ t[e + 2] = NL THEN e + 2 ELSE e + 1

RECURSIVE splitlines(_, _)
\* the line t[k:e] and the lines after its break
LineAndRest(t, k, e) == <<Slice(t, k, e)>> \o splitlines(t, AfterBreak(t, e))

\* t[k:].splitlines()
splitlines(t, k) == IF k >= Len(t) THEN <<>> ELSE LineAndRest(t, k, BreakFrom(t, k))

RECURSIVE SplitOn(_, _, _)
\* the part t[k:e] and the parts after the separator at e
PartAndRest(t, k, sep, e) ==
    IF e >= Len(t) THEN <<Slice(t, k, Len(t))>>
    ELSE <<Slice(t, k, e)>> \o SplitOn(t, e + 1, sep)

\* t[k:].split(sep), sep one character
SplitOn(t, k, sep) ==
    PartAndRest(t, k, sep, MinOf({j \in k..(Len(t) - 1) : t[j + 1] = sep} \cup {Len(t)}))

\* all(part.strip().isdigit() for part in s.split("/") if part.strip())
AllPartsDigits(parts) ==
    \A i \in 1..Len(parts) : Strip(parts[i]) = <<>> \/ isdigit(Strip(parts[i]))

HEADER_MAX_LEN == 25
PAGE_PAIR_MAX_LEN == 15
COMPANY_MAX_LEN == 30

\* lines 310-333, on s = line.strip()
HeaderOrFooter(s) ==
    \/ s = <<>>
    \/ isdigit(s)
    \/ 47 \in {s[i] : i \in 1..Len(s)} /\ AllPartsDigits(SplitOn(s, 0, 47))
         /\ Len(s) <= PAGE_PAIR_MAX_LEN
    \/ Contains(s, S_NianDuBaoGao) /\ Contains(s, S_GuFenYouXianGongSi)
    \/ StartsWith(s, S_GongSiDaiMa) \/ StartsWith(s, S_GongSiJianCheng)
         \/ Contains(s, S_GongSiDaiMa)
    \/ (EndsWith(s, S_GuFenYouXianGongSi) \/ EndsWith(s, S_YouXianGongSi))
         /\ Len(s) <= COMPANY_MAX_LEN
    \/ Contains(s, S_NianDuBaoGao) /\ Len(s) <= HEADER_MAX_LEN

is_header_footer(line) == HeaderOrFooter(Strip(line))

\* ln.replace("\u00a0", " ").strip()
Tidy(ln) == Strip([i \in 1..Len(ln) |-> IF ln[i] = 160 THEN SP ELSE ln[i]])

\* lines 336-341: the tidied lines that are no header or footer
TidyAll(raw_lines) == [i \in 1..Len(raw_lines) |-> Tidy(raw_lines[i])]
FilterLines(raw_lines) == SelectSeq(TidyAll(raw_lines), LAMBDA s : ~is_header_footer(s))

SOFTEN_MIN_LEN == 25
SOFTEN_STEP == 20

\* [A-Za-z0-9_\\./-]
TokenChars == 65..90 \cup 97..122 \cup 48..57 \cup {95, 92, 46, 47, 45}

\* the offset where the token that holds offset i begins, and where it ends
TokenStart(line, i) == MaxOf({j \in 0..i : j = 0 \/ IsSpace(line[j])})
TokenEnd(line, i) == MinOf({j \in i..(Len(line) - 1) : IsSpace(line[j + 1])} \cup {Len(line)})

\* lines 346-352: the token from a to e is long and url-like
Softened(line, a, e) ==
    e - a >= SOFTEN_MIN_LEN /\ \A j \in (a + 1)..e : line[j] \in TokenChars

\* the character at offset i, after a zero-width space when it begins a
\* later piece of 20 of a softened token
SoftenedChar(line, i, a) ==
    IF ~IsSpace(line[i + 1]) /\ i > a /\ (i - a) % SOFTEN_STEP = 0
       /\ Softened(line, a, TokenEnd(line, i))
    THEN <<8203, line[i + 1]>>
    ELSE <<line[i + 1]>>

\* lines 344-357
soften_long_tokens(line) ==
    Glued([k \in 1..Len(line) |-> SoftenedChar(line, k - 1, TokenStart(line, k - 1))])

SoftenAll(tmp) == [i \in 1..Len(tmp) |-> soften_long_tokens(tmp[i])]

SHORT_MAX_LEN == 6
SHORT_BUF_MAX == 12

\* [。；;：:]
ShortEnders == {12290, 65307, 59, 65306, 58}
\* [。！？；：:）)」』】]
EndPunct == {12290, 65281, 65311, 65307, 65306, 58, 65289, 41, 12301, 12303, 12305}

\* re.search(r"[...]$", s): s has no line break in it
EndsIn(s, C) == s # <<>> /\ s[Len(s)] \in C

\* lines 371-372
is_short(s) == Len(s) <= SHORT_MAX_LEN /\ ~EndsIn(s, ShortEnders)

RECURSIVE JoinWith(_, _)
\* sep.join(parts)
JoinWith(parts, sep) ==
    IF parts = <<>> THEN <<>>
    ELSE IF Len(parts) = 1 THEN parts[1]
    ELSE parts[1] \o sep \o JoinWith(Tail(parts), sep)

\* flush_buf of lines 364-368: merged with the buffer appended, if any
Flushed(merged, buf) ==
    IF buf # <<>> THEN Append(merged, Strip(JoinWith(buf, <<SP, SP>>))) ELSE merged

RECURSIVE MergeFrom(_, _, _, _)
\* ShortLine with the slip of never flushing a full buffer
ShortLineUnbounded(tmp, k, merged, buf) == MergeFrom(tmp, k + 1, merged, buf)

\* lines 373-378: the buffer took a short line
ShortLine(tmp, k, merged, buf) ==
    IF Len(buf) >= SHORT_BUF_MAX THEN MergeFrom(tmp, k + 1, Flushed(merged, buf), <<>>)
    ELSE MergeFrom(tmp, k + 1, merged, buf)

\* lines 370-383: the loop from line k of tmp on, and the last flush
MergeFrom(tmp, k, merged, buf) ==
    IF k > Len(tmp) THEN Flushed(merged, buf)
    ELSE IF is_short(tmp[k]) THEN ShortLine(tmp, k, merged, Append(buf, tmp[k]))
    ELSE MergeFrom(tmp, k + 1, Append(Flushed(merged, buf), tmp[k]), <<>>)

\* lines 361-383
MergeShortLines(tmp) == MergeFrom(tmp, 1, <<>>, <<>>)

\* lines 386-389
NonEmpty(merged) == SelectSeq(merged, LAMBDA s : s # <<>>)

\* [一二三四五六七八九十0-9]
OrdinalChars == CnNumerals \cup AsciiDigits
\* [节章节]
SectionChars == {33410, 31456}

\* s[a:] begins with n characters of the class C and then one of the class E
CountedThen(s, a, n, C, E) ==
    /\ a + n + 1 <= Len(s)
    /\ \A j \in (a + 1)..(a + n) : s[j] \in C
    /\ s[a + n + 1] \in E

\* heading_re.match(s), lines 393-399
heading_re(s) ==
    \/ s # <<>> /\ s[1] = 31532 /\ \E n \in 1..3 : CountedThen(s, 1, n, OrdinalChars, SectionChars)
    \/ \E n \in 1..3 : CountedThen(s, 0, n, CnNumerals, {12289})
    \/ \E n \in 1..2 : CountedThen(s, 0, n, Digits, {12289})
    \/ s # <<>> /\ s[1] \in OpenBrackets
         /\ \E n \in 1..3 : CountedThen(s, 1, n, OrdinalChars, CloseBrackets)

\* end_punct_re.search(buf), line 400
end_punct_re(buf) == EndsIn(buf, EndPunct)

\* flush_buf of lines 405-409: paras with the stripped buffer appended, if
\* it is not blank
FlushedPara(paras, buf) == IF Strip(buf) # <<>> THEN Append(paras, Strip(buf)) ELSE paras

\* SpacedForHeading with the slip of leaving the blank line out
UnspacedForHeading(paras) == paras

\* lines 420-422: a blank line above the heading, unless it comes first
SpacedForHeading(paras) ==
    IF paras # <<>> /\ paras[Len(paras)] # <<>> THEN Append(paras, <<>>) ELSE paras

RECURSIVE ReflowFrom(_, _, _, _)
\* BodyLine with the slip of joining every body line to the buffer
BodyLineJoined(lines, k, paras, buf, s) ==
    IF buf = <<>> THEN ReflowFrom(lines, k + 1, paras, s)
    ELSE ReflowFrom(lines, k + 1, paras, buf \o s)

\* lines 425-433: a body line s joins the buffer or opens a new one
BodyLine(lines, k, paras, buf, s) ==
    IF buf = <<>> THEN ReflowFrom(lines, k + 1, paras, s)
    ELSE IF end_punct_re(buf) THEN ReflowFrom(lines, k + 1, FlushedPara(paras, buf), s)
    ELSE ReflowFrom(lines, k + 1, paras, buf \o s)

\* lines 412-433: one turn of the loop, on s = lines[k].strip()
ReflowLine(lines, k, paras, buf, s) ==
    IF s = <<>> THEN ReflowFrom(lines, k + 1, FlushedPara(paras, buf), <<>>)
    ELSE IF heading_re(s)
    THEN ReflowFrom(lines, k + 1, Append(SpacedForHeading(FlushedPara(paras, buf)), s), <<>>)
    ELSE BodyLine(lines, k, paras, buf, s)

\* lines 411-435: the loop from line k on, and the last flush
ReflowFrom(lines, k, paras, buf) ==
    IF k > Len(lines) THEN FlushedPara(paras, buf)
    ELSE ReflowLine(lines, k, paras, buf, Strip(lines[k]))

\* lines 437-438: while paras and paras[-1] == "": paras.pop()
WithoutTrailingBlanks(paras) ==
    SubSeq(paras, 1, MaxOf({0} \cup {i \in 1..Len(paras) : paras[i] # <<>>}))

\* lines 402-438
Paragraphs(lines) == WithoutTrailingBlanks(ReflowFrom(lines, 1, <<>>, <<>>))

\* xml.sax.saxutils.escape of one character, and of a text
EscapedChar(c) ==
    IF c = 38 THEN <<38, 97, 109, 112, 59>>          \* &amp;
    ELSE IF c = 62 THEN <<38, 103, 116, 59>>         \* &gt;
    ELSE IF c = 60 THEN <<38, 108, 116, 59>>         \* &lt;
    ELSE <<c>>
escape(s) == Glued([i \in 1..Len(s) |-> EscapedChar(s[i])])

\* "&#12288;&#12288;"
indent == <<38, 35, 49, 50, 50, 56, 56, 59, 38, 35, 49, 50, 50, 56, 56, 59>>
\* "（未提取到内容）"
S_WeiTiQuDaoNeiRong == <<65288, 26410, 25552, 21462, 21040, 20869, 23481, 65289>>
\* "<br/>"
S_Br == <<60, 98, 114, 47, 62>>

\* lines 457-465, on s = ln.strip()
HtmlLine(s) ==
    IF s = <<>> THEN <<>>
    ELSE IF heading_re(s) THEN escape(s)
    ELSE indent \o escape(s)

\* lines 453-465
HtmlLines(cleaned) ==
    [i \in 1..Len(SplitFrom(cleaned, 0)) |-> HtmlLine(Strip(SplitFrom(cleaned, 0)[i]))]

(***************************************************************************)
(* daily_report.py: the incremental report.  Times are whole seconds (the  *)
(* state file and the query bounds are formatted "%Y-%m-%d %H:%M:%S"), a   *)
(* day is SecondsPerDay seconds long, and a row of the table is a row of   *)
(* annual_report_mda joined with its annual_reports row.                   *)
(***************************************************************************)

\* None: no --date, no last_sent_at
Absent == -1

\* --date "": a date that Python takes as false
EmptyDate == -2

SecondsPerDay == 2

\* dt.date.today()
today(t) == t \div SecondsPerDay

\* dt.datetime.combine(dt.date.today(), dt.time(0, 0, 0))
Midnight(t) == today(t) * SecondsPerDay

\* the content of data/state/last_sent.json: Absent with no file, else the
\* time it records
load_last_sent_at(file) == file

save_last_sent_at(ts) == ts

\* rows of other connections are seen once committed
fetch_rows_by_publish_date(table, publish_date) ==
    {r \in table : r.committed /\ r.publish_date = publish_date}

fetch_rows_by_created_at_range(table, start_ts, end_ts) ==
    {r \in table : r.committed /\ r.created_at > start_ts /\ r.created_at <= end_ts}

\* lines 635-638
StartAt(a, last_sent_at, t) ==
    IF a.today_only \/ last_sent_at = Absent THEN Midnight(t) ELSE last_sent_at

\* lines 604-606: if manual_publish_date
manual_publish_date(a) == a.date # Absent /\ a.date # EmptyDate

\* lines 610, 647: annual_report_summary_<day>.pdf, named by its day
OutPdf(a, t) == IF manual_publish_date(a) THEN a.date ELSE today(t)

\* generate_daily_summary_pdf(rows, out_pdf, range_label): the file is there
generate_daily_summary_pdf(files, name) == files \cup {name}

\* lines 669-671: cfg.get("email", "enabled"), and --no-email
Enabled(enabled, a) == enabled /\ ~a.no_email

NoArgs == [date |-> Absent, no_email |-> FALSE, only_email |-> FALSE, today_only |-> FALSE]

(***************************************************************************)
(* main.py main: the crawler.  An announcement is a record of its title,   *)
(* secCode, announcementTime (an integer number of seconds) and            *)
(* adjunctUrl; a row of annual_reports a record of its id, stock_code and  *)
(* report_year.                                                            *)
(***************************************************************************)

S_ZhaiYao == <<25688, 35201>>                                     \* 摘要
S_GuanYu == <<20851, 20110>>                                      \* 关于
S_Nian == <<24180>>                                               \* 年
S_ErLing == <<50, 48>>                                            \* 20

MAX_RETRY == 3

MAX_PAGE == 50

IDLE_FROM_PAGE == 3

days_back == 30

\* title.split("关于")[0]
BeforeGuanYu(title) ==
    SubSeq(title, 1, MinOf({i \in 0..Len(title) : LitAt(title, i, S_GuanYu)}))

\* lines 662-668: an annual report, no summary, no notice about one
IsAnnualReport(title) ==
    /\ Contains(title, S_NianDuBaoGao)
    /\ ~Contains(title, S_ZhaiYao)
    /\ ~(Contains(title, S_GuanYu) /\ ~Contains(BeforeGuanYu(title), S_NianDuBaoGao))

\* 20\d{2} at offset i
YearAt(title, i) ==
    /\ LitAt(title, i, S_ErLing)
    /\ i + 4 <= Len(title)
    /\ IsDigit(title[i + 3])
    /\ IsDigit(title[i + 4])

\* \s*年?\s*年度报告 at offset j
AnnualAfter(title, j) ==
    \/ LitAt(title, RunEnd(title, j, Spaces), S_NianDuBaoGao)
    \/ /\ LitAt(title, RunEnd(title, j, Spaces), S_Nian)
       /\ LitAt(title, RunEnd(title, RunEnd(title, j, Spaces) + 1, Spaces), S_NianDuBaoGao)

\* int(m.group(1)) for the year at offset i
YearValue(title, i) == 2000 + 10 * DigitValue(title[i + 3]) + DigitValue(title[i + 4])

\* the offsets where (20\d{2})\s*年?\s*年度报告 matches
YearMatches(title) ==
    {i \in 0..Len(title) : YearAt(title, i) /\ AnnualAfter(title, i + 4)}

\* lines 671-679: the year of the title, Absent when it has none
YearOf(title) ==
    IF YearMatches(title) # {} THEN YearValue(title, MinOf(YearMatches(title)))
    ELSE IF YearAt(title, 0) THEN YearValue(title, 0)
    ELSE Absent

\* lines 564-567
start_ts(end_ts) == end_ts - days_back

\* lines 685-701: the announcement is of the window
InWindow(ann, end_ts) ==
    ann.announcementTime >= start_ts(end_ts) /\ ann.announcementTime <= end_ts

\* lines 659-709: the announcements that reach the de-duplication
Wanted(ann, end_ts) ==
    /\ IsAnnualReport(ann.announcementTitle)
    /\ YearOf(ann.announcementTitle) # Absent
    /\ InWindow(ann, end_ts)

\* exists, looking at the row inserted last only
ExistsLast(table, stock_code, year) ==
    \E r \in table :
        r.id = Cardinality(table) /\ r.stock_code = stock_code /\ r.report_year = year

\* MySQLClient.exists
exists(table, stock_code, year) ==
    \E r \in table : r.stock_code = stock_code /\ r.report_year = year

\* MySQLClient.insert_report: the row has the next id
insert_report(table, stock_code, year) ==
    table \cup {[id |-> Cardinality(table) + 1, stock_code |-> stock_code, report_year |-> year]}

\* lines 611-632: the announcementTime values of the page
PageTimes(anns) == {anns[i].announcementTime : i \in 1..Len(anns)}

\* lines 634-638
StopAfterPage(anns, end_ts) ==
    PageTimes(anns) # {} /\ MinOf(PageTimes(anns)) < start_ts(end_ts)

\* PagingEnds with the slip of leaving out the limit of 50 pages
PagingEndsUncapped(anns, page_no, end_ts) ==
    \/ PageTimes(anns) # {} /\ MaxOf(PageTimes(anns)) < start_ts(end_ts)
    \/ anns = <<>>

\* lines 641-650: the paging of the exchange ends before the page is processed
PagingEnds(anns, page_no, end_ts) ==
    \/ PageTimes(anns) # {} /\ MaxOf(PageTimes(anns)) < start_ts(end_ts)
    \/ page_no >= MAX_PAGE
    \/ anns = <<>>

(***************************************************************************)
(* AnnualReportParser.extract_mda(pdf_path) as a state machine: one action *)
(* per step of the function, pc naming the step to take next.  The other   *)
(* variables are the function's local variables of the same names.         *)
(*                                                                         *)
(* A call of _slice_to_next_ordinal on its own: text, start_idx and        *)
(* current_ordinal are its arguments, sliced the value it returned.        *)
(*                                                                         *)
(* A call of _next_ordinal_candidates on its own: current_ordinal is its   *)
(* argument, candidates the list it returned.                              *)
(***************************************************************************)
VARIABLES pages, pc, toc_page, toc_pages, page_num, start_page, scan_start,
          mda_text, management_overview, future, result,
          text, start_idx, current_ordinal, sliced, slice_pc,
          candidates, ordinal_pc,
          normalized, renormalized, normalize_pc,
          tmp, merged, lines, paras, cleaned, html_lines, html, reflow_pc,
          clock, annual_report_mda, last_sent_json, pdf_files, args, now, rows, report_pc, reported, fresh, used, printed,
          annual_reports, mda_report_id, downloads, crawl_pc, col, page, attempt, announcements, processed_this_page, stop_after_page,
          extracted, keyword_pc,
          helper, window, end_idx, boundary_pc

mda_vars == <<pages, pc, toc_page, toc_pages, page_num, start_page, scan_start,
              mda_text, management_overview, future, result>>

slice_vars == <<text, start_idx, current_ordinal, sliced, slice_pc>>

ordinal_vars == <<candidates, ordinal_pc>>

normalize_vars == <<normalized, renormalized, normalize_pc>>

reflow_vars == <<tmp, merged, lines, paras, cleaned, html_lines, html, reflow_pc>>

report_vars == <<clock, annual_report_mda, last_sent_json, pdf_files, args, now, rows, report_pc, reported, fresh, used, printed>>

crawl_vars == <<annual_reports, mda_report_id, downloads, crawl_pc, col, page, attempt, announcements, processed_this_page, stop_after_page>>

keyword_vars == <<extracted, keyword_pc>>

boundary_vars == <<helper, window, end_idx, boundary_pc>>

vars == <<mda_vars, slice_vars, ordinal_vars, normalize_vars, reflow_vars, report_vars, crawl_vars, keyword_vars, boundary_vars>>

\* what a step of extract_mda leaves alone, and a step of the slicer
not_mda_vars == <<slice_vars, ordinal_vars, normalize_vars, reflow_vars, report_vars, crawl_vars, keyword_vars, boundary_vars>>
not_slice_vars == <<mda_vars, ordinal_vars, normalize_vars, reflow_vars, report_vars, crawl_vars, keyword_vars, boundary_vars>>
not_ordinal_vars == <<mda_vars, slice_vars, normalize_vars, reflow_vars, report_vars, crawl_vars, keyword_vars, boundary_vars>>

not_normalize_vars == <<mda_vars, slice_vars, ordinal_vars, reflow_vars, report_vars, crawl_vars, keyword_vars, boundary_vars>>

not_reflow_vars == <<mda_vars, slice_vars, ordinal_vars, normalize_vars, report_vars, crawl_vars, keyword_vars, boundary_vars>>

not_report_vars == <<mda_vars, slice_vars, ordinal_vars, normalize_vars, reflow_vars, crawl_vars, keyword_vars, boundary_vars>>

not_crawl_vars == <<mda_vars, slice_vars, ordinal_vars, normalize_vars, reflow_vars, report_vars, keyword_vars, boundary_vars>>

not_keyword_vars == <<mda_vars, slice_vars, ordinal_vars, normalize_vars, reflow_vars, report_vars, crawl_vars, boundary_vars>>

not_boundary_vars == <<mda_vars, slice_vars, ordinal_vars, normalize_vars, reflow_vars, report_vars, crawl_vars, keyword_vars>>

\* no call of extract_mda, of the slicer, of the candidates in progress
MdaIdle ==
    /\ pages = <<>>
    /\ pc = "idle"
    /\ toc_page = NoIndex
    /\ toc_pages = {}
    /\ page_num = NoIndex
    /\ start_page = NoIndex
    /\ scan_start = NoIndex
    /\ mda_text = <<>>
    /\ management_overview = None
    /\ future = None
    /\ result = [returned |-> FALSE]

SliceIdle ==
    /\ start_idx = NoIndex
    /\ sliced = None
    /\ slice_pc = "idle"

OrdinalIdle ==
    /\ candidates = <<>>
    /\ ordinal_pc = "idle"

\* no round trip of normalize in progress
NormalizeIdle ==
    /\ normalized = <<>>
    /\ renormalized = <<>>
    /\ normalize_pc = "idle"

\* no call of safe_block in progress
ReflowIdle ==
    /\ tmp = <<>>
    /\ merged = <<>>
    /\ lines = <<>>
    /\ paras = <<>>
    /\ cleaned = <<>>
    /\ html_lines = <<>>
    /\ html = <<>>
    /\ reflow_pc = "idle"

\* no run of daily_report, an empty table and no state file
ReportIdle ==
    /\ clock = 0
    /\ annual_report_mda = {}
    /\ last_sent_json = Absent
    /\ pdf_files = {}
    /\ args = NoArgs
    /\ now = 0
    /\ rows = {}
    /\ report_pc = "idle"
    /\ reported = {}
    /\ printed = {}
    /\ fresh = {}
    /\ used = NoArgs

\* no run of the crawler, empty tables and no downloaded file
CrawlIdle ==
    /\ annual_reports = {}
    /\ mda_report_id = {}
    /\ downloads = {}
    /\ crawl_pc = "idle"
    /\ col = "szse"
    /\ page = 1
    /\ attempt = 1
    /\ announcements = <<>>
    /\ processed_this_page = 0
    /\ stop_after_page = FALSE

\* no call of extract_section_by_keywords on its own in progress
KeywordIdle ==
    /\ extracted = None
    /\ keyword_pc = "idle"

\* no boundary helper called on its own
BoundaryIdle ==
    /\ helper = "none"
    /\ window = None
    /\ end_idx = NoIndex
    /\ boundary_pc = "idle"

\* extract_mda has not returned; it returned None
Pending == [returned |-> FALSE]
ReturnedNone == [returned |-> TRUE, none |-> TRUE]

\* lines 182-190: find the contents page and the pages to read the entry from
SeekToc ==
    /\ pc = "seek_toc"
    /\ toc_page' = FindTocPage(pages)
    /\ toc_pages' = TocPages(toc_page')
    /\ pc' = "toc_lookup"
    /\ UNCHANGED <<pages, page_num, start_page, scan_start, mda_text,
                   management_overview, future, result>>
    /\ UNCHANGED not_mda_vars

\* lines 191-204: the page number the contents give for section three
TocLookup ==
    /\ pc = "toc_lookup"
    /\ page_num' = TocPageNumber(extract_text(pages, toc_pages))
    /\ start_page' = CandidateStartPage(page_num')
    /\ pc' = "validate_toc_hit"
    /\ UNCHANGED <<pages, toc_page, toc_pages, scan_start, mda_text,
                   management_overview, future, result>>
    /\ UNCHANGED not_mda_vars

\* lines 206-220
ValidateTocHit ==
    /\ pc = "validate_toc_hit"
    /\ start_page' = ValidatedStartPage(pages, start_page, toc_pages)
    /\ pc' = IF start_page' = NoIndex THEN "scan_fallback" ELSE "located"
    /\ UNCHANGED <<pages, toc_page, toc_pages, page_num, scan_start, mda_text,
                   management_overview, future, result>>
    /\ UNCHANGED not_mda_vars

\* lines 223-234
ScanFallback ==
    /\ pc = "scan_fallback"
    /\ scan_start' = IF toc_page # NoIndex THEN toc_page + 1 ELSE 0
    /\ start_page' = ScanForSectionThree(pages, scan_start')
    /\ pc' = "located"
    /\ UNCHANGED <<pages, toc_page, toc_pages, page_num, mda_text,
                   management_overview, future, result>>
    /\ UNCHANGED not_mda_vars

\* NotFound with the slip of returning a result that holds nothing
ReturnEmptyResult ==
    /\ pc = "located"
    /\ start_page = NoIndex
    /\ result' = [returned |-> TRUE, none |-> FALSE, industry |-> None,
                  business |-> None, future |-> None, full_mda |-> <<>>]
    /\ pc' = "done"
    /\ UNCHANGED <<pages, toc_page, toc_pages, page_num, start_page, scan_start,
                   mda_text, management_overview, future>>
    /\ UNCHANGED not_mda_vars

\* lines 236-238: no start page, return None
NotFound ==
    /\ pc = "located"
    /\ start_page = NoIndex
    /\ result' = ReturnedNone
    /\ pc' = "done"
    /\ UNCHANGED <<pages, toc_page, toc_pages, page_num, start_page, scan_start,
                   mda_text, management_overview, future>>
    /\ UNCHANGED not_mda_vars

\* lines 243-250
CaptureEnd ==
    /\ pc = "located"
    /\ start_page # NoIndex
    /\ mda_text' = CaptureFrom(pages, start_page, start_page + CAPTURE_PAGES)
    /\ pc' = "captured"
    /\ UNCHANGED <<pages, toc_page, toc_pages, page_num, start_page, scan_start,
                   management_overview, future, result>>
    /\ UNCHANGED not_mda_vars

\* NothingCaptured with the slip of going on with the empty text
GoOnWithNothing ==
    /\ pc = "captured"
    /\ mda_text = <<>>
    /\ pc' = "overview"
    /\ UNCHANGED <<pages, toc_page, toc_pages, page_num, start_page, scan_start,
                   mda_text, management_overview, future, result>>
    /\ UNCHANGED not_mda_vars

\* lines 252-253: nothing captured, return None
NothingCaptured ==
    /\ pc = "captured"
    /\ mda_text = <<>>
    /\ result' = ReturnedNone
    /\ pc' = "done"
    /\ UNCHANGED <<pages, toc_page, toc_pages, page_num, start_page, scan_start,
                   mda_text, management_overview, future>>
    /\ UNCHANGED not_mda_vars

\* lines 256-258
Truncate ==
    /\ pc = "captured"
    /\ mda_text # <<>>
    /\ mda_text' = TruncateToSectionThree(mda_text)
    /\ pc' = "overview"
    /\ UNCHANGED <<pages, toc_page, toc_pages, page_num, start_page, scan_start,
                   management_overview, future, result>>
    /\ UNCHANGED not_mda_vars

\* lines 274-276
Overview ==
    /\ pc = "overview"
    /\ management_overview' =
           OverviewOrAll(mda_text,
               _slice_to_next_heading_with_title_keywords(mda_text, 0, stop_titles))
    /\ pc' = "safety_net"
    /\ UNCHANGED <<pages, toc_page, toc_pages, page_num, start_page, scan_start,
                   mda_text, future, result>>
    /\ UNCHANGED not_mda_vars

\* lines 280-285
SafetyNet ==
    /\ pc = "safety_net"
    /\ management_overview' =
           CutAtCore(mda_text, management_overview, CoreHeadingSearch(mda_text))
    /\ pc' = "future"
    /\ UNCHANGED <<pages, toc_page, toc_pages, page_num, start_page, scan_start,
                   mda_text, future, result>>
    /\ UNCHANGED not_mda_vars

\* lines 287-298
Future ==
    /\ pc = "future"
    /\ future' = extract_section_by_keywords(mda_text, future_keywords, <<>>, <<>>)
    /\ pc' = "sanity"
    /\ UNCHANGED <<pages, toc_page, toc_pages, page_num, start_page, scan_start,
                   mda_text, management_overview, result>>
    /\ UNCHANGED not_mda_vars

\* lines 301-304
SanityChecks ==
    /\ pc = "sanity"
    /\ management_overview' = CheckedOverview(mda_text, management_overview)
    /\ future' = CheckedFuture(future)
    /\ pc' = "return"
    /\ UNCHANGED <<pages, toc_page, toc_pages, page_num, start_page, scan_start,
                   mda_text, result>>
    /\ UNCHANGED not_mda_vars

\* lines 306-314
Return ==
    /\ pc = "return"
    /\ result' = [returned |-> TRUE, none |-> FALSE, industry |-> None,
                  business |-> management_overview, future |-> future,
                  full_mda |-> mda_text]
    /\ pc' = "done"
    /\ UNCHANGED <<pages, toc_page, toc_pages, page_num, start_page, scan_start,
                   mda_text, management_overview, future>>
    /\ UNCHANGED not_mda_vars

\* lines 406-430: the call and its return
SliceToNextOrdinal ==
    /\ slice_pc = "call"
    /\ sliced' = _slice_to_next_ordinal(text, start_idx, current_ordinal)
    /\ slice_pc' = "returned"
    /\ UNCHANGED <<text, start_idx, current_ordinal>>
    /\ UNCHANGED not_slice_vars

\* lines 377-404: the call and its return
NextOrdinalCandidates ==
    /\ ordinal_pc = "call"
    /\ candidates' = _next_ordinal_candidates(current_ordinal)
    /\ ordinal_pc' = "returned"
    /\ UNCHANGED not_ordinal_vars

\* lines 125-177: normalize(text)
Normalize ==
    /\ normalize_pc = "call"
    /\ normalized' = normalize(text)
    /\ normalize_pc' = "once"
    /\ UNCHANGED renormalized
    /\ UNCHANGED not_normalize_vars

\* lines 125-177: normalize of the text the first call returned
NormalizeAgain ==
    /\ normalize_pc = "once"
    /\ renormalized' = normalize(normalized)
    /\ normalize_pc' = "twice"
    /\ UNCHANGED normalized
    /\ UNCHANGED not_normalize_vars

(***************************************************************************)
(* safe_block(text) of generate_daily_summary_pdf as a state machine: one  *)
(* action per step, reflow_pc naming the step to take next; tmp, merged,   *)
(* lines, paras, cleaned and html_lines are the local variables of the     *)
(* same names, html is the text of the Paragraph returned.                 *)
(***************************************************************************)
\* lines 294-295: if not text: return Paragraph("（未提取到内容）", body)
Placeholder ==
    /\ reflow_pc = "call"
    /\ text = <<>>
    /\ html' = S_WeiTiQuDaoNeiRong
    /\ reflow_pc' = "done"
    /\ UNCHANGED <<tmp, merged, lines, paras, cleaned, html_lines>>
    /\ UNCHANGED not_reflow_vars

\* lines 308-359: the lines without headers and footers, long tokens softened
FilterAndSoften ==
    /\ reflow_pc = "call"
    /\ text # <<>>
    /\ tmp' = SoftenAll(FilterLines(splitlines(text, 0)))
    /\ reflow_pc' = "merge"
    /\ UNCHANGED <<merged, lines, paras, cleaned, html_lines, html>>
    /\ UNCHANGED not_reflow_vars

\* lines 361-389: runs of short lines merged
MergeShort ==
    /\ reflow_pc = "merge"
    /\ merged' = MergeShortLines(tmp)
    /\ lines' = NonEmpty(merged')
    /\ reflow_pc' = "reflow"
    /\ UNCHANGED <<tmp, paras, cleaned, html_lines, html>>
    /\ UNCHANGED not_reflow_vars

\* lines 391-442: headings and paragraphs, joined into the cleaned text
ReflowParagraphs ==
    /\ reflow_pc = "reflow"
    /\ paras' = Paragraphs(lines)
    /\ cleaned' = Strip(JoinLines(paras'))
    /\ reflow_pc' = "render"
    /\ UNCHANGED <<tmp, merged, lines, html_lines, html>>
    /\ UNCHANGED not_reflow_vars

\* lines 444-468: the lines of the paragraph, and the Paragraph returned
Render ==
    /\ reflow_pc = "render"
    /\ html_lines' = HtmlLines(cleaned)
    /\ html' = JoinWith(html_lines', S_Br)
    /\ reflow_pc' = "done"
    /\ UNCHANGED <<tmp, merged, lines, paras, cleaned>>
    /\ UNCHANGED not_reflow_vars

\* lines 479-522: extract_section_by_keywords(text, keywords) as extract_mda
\* calls it for the future outlook (lines 287-298), and its return
ExtractSectionByKeywords ==
    /\ keyword_pc = "call"
    /\ extracted' = extract_section_by_keywords(text, future_keywords, <<>>, <<>>)
    /\ keyword_pc' = "returned"
    /\ UNCHANGED not_keyword_vars

\* lines 406-430: _slice_to_next_ordinal(text, start_idx, current_ordinal)
\* and its return
CallSliceToNextOrdinal ==
    /\ boundary_pc = "call"
    /\ helper' = "_slice_to_next_ordinal"
    /\ end_idx' = OrdinalEndIdx(text, start_idx, current_ordinal)
    /\ window' = _slice_to_next_ordinal(text, start_idx, current_ordinal)
    /\ boundary_pc' = "returned"
    /\ UNCHANGED not_boundary_vars

\* lines 355-375: _slice_to_next_major_heading(text, start_idx) and its return
CallSliceToNextMajorHeading ==
    /\ boundary_pc = "call"
    /\ helper' = "_slice_to_next_major_heading"
    /\ end_idx' = MajorEndIdx(text, start_idx)
    /\ window' = _slice_to_next_major_heading(text, start_idx)
    /\ boundary_pc' = "returned"
    /\ UNCHANGED not_boundary_vars

\* lines 316-353: _slice_to_next_heading_with_title_keywords(text, start_idx,
\* stop_titles), the title keywords extract_mda passes (line 274), and its return
CallSliceToNextTitledHeading ==
    /\ boundary_pc = "call"
    /\ helper' = "_slice_to_next_heading_with_title_keywords"
    /\ end_idx' = TitledEndIdx(text, start_idx, stop_titles)
    /\ window' = _slice_to_next_heading_with_title_keywords(text, start_idx, stop_titles)
    /\ boundary_pc' = "returned"
    /\ UNCHANGED not_boundary_vars

\* lines 104-123: _slice_to_next_bracket_heading(text, start_idx) and its return
CallSliceToNextBracketHeading ==
    /\ boundary_pc = "call"
    /\ helper' = "_slice_to_next_bracket_heading"
    /\ end_idx' = BracketEndIdx(text, start_idx)
    /\ window' = _slice_to_next_bracket_heading(text, start_idx)
    /\ boundary_pc' = "returned"
    /\ UNCHANGED not_boundary_vars

(***************************************************************************)
(* The documents extract_mda is run on.  A layout document has NumPages    *)
(* pages: a cover, a contents page (with or without its title line) that   *)
(* may list a page number for section three, a page that opens section     *)
(* three, a page that mentions the contents (and may quote the heading of  *)
(* section three), a page that opens section four; every page but the      *)
(* cover carries a body line of its own and a page-number footer.          *)
(***************************************************************************)
NumPages == 10
MaxListedPage == 11

R_CompanyName == <<26576, 26576, 32929, 20221, 26377, 38480, 20844, 21496>>   \* 某某股份有限公司
R_ReportTitle == <<50, 48, 50, 51, 24180, 24180, 24230, 25253, 21578>>        \* 2023年年度报告
R_TocTitle == <<30446, 32, 24405>>                                            \* 目 录
R_SectionThree == <<31532, 19977, 33410, 32, 31649, 29702, 23618, 35752, 35770, 19982, 20998, 26512>> \* 第三节 管理层讨论与分析
R_Leader == <<46, 46, 46, 46, 46, 46>>                                        \* ......
R_SectionFour == <<31532, 22235, 33410, 32, 20844, 21496, 27835, 29702>>      \* 第四节 公司治理
R_Body == <<26412, 39029, 27491, 25991>>                                      \* 本页正文
R_TocMention == <<35814, 35265, 30446, 24405, 12290>>                         \* 详见目录。
R_Summary == <<19968, 12289, 27010, 36848>>                                   \* 一、概述

RECURSIVE Decimal(_)
\* str(n)
Decimal(n) == IF n < 10 THEN <<48 + n>> ELSE Decimal(n \div 10) \o <<48 + (n % 10)>>

\* The raw text of page p of the layout document d
LayoutPage(d, p) ==
    (IF p = 0 THEN R_CompanyName \o <<NL>> \o R_ReportTitle \o <<NL>> ELSE <<>>)
    \o (IF d.tocStyle # "none" /\ p = d.tocAt
        THEN (IF d.tocStyle = "titled" THEN R_TocTitle \o <<NL>> ELSE <<>>)
             \o R_SectionThree
             \o (IF d.listed # NoIndex THEN R_Leader \o Decimal(d.listed) ELSE <<>>)
             \o <<CR, NL>>
        ELSE <<>>)
    \o (IF p = d.refAt THEN R_TocMention \o <<NL>> ELSE <<>>)
    \o (IF p = d.refAt /\ d.quoted THEN R_SectionThree \o <<NL>> ELSE <<>>)
    \o (IF p = d.markerAt THEN R_SectionThree \o <<NL>> \o R_Summary \o <<NL>> ELSE <<>>)
    \o (IF p = d.sec4At THEN R_SectionFour \o <<NL>> ELSE <<>>)
    \o (IF p > 0 THEN R_Body \o <<65 + p, 12290, NL>> \o Decimal(p + 1) \o <<NL>> ELSE <<>>)

LayoutDocument(d) == [i \in 1..NumPages |-> LayoutPage(d, i - 1)]

AllLayouts ==
    [tocStyle : {"none"}, tocAt : {1}, listed : {NoIndex},
     markerAt : {NoIndex, 5, 6, 8}, refAt : {NoIndex, 5, 6}, quoted : BOOLEAN,
     sec4At : {NoIndex, 7, 8}]
    \cup
    [tocStyle : {"titled", "untitled"}, tocAt : {1, 3},
     listed : {NoIndex, 2} \cup 5..MaxListedPage,
     markerAt : {NoIndex, 5, 6, 8}, refAt : {NoIndex, 5, 6}, quoted : BOOLEAN,
     sec4At : {NoIndex, 7, 8}]

Layouts == {d \in AllLayouts : d.quoted => d.refAt # NoIndex}

(***************************************************************************)
(* A content document has the same cover, a contents page set with an      *)
(* ideographic space, an ellipsis leader and full-width digits, and a      *)
(* section three of three pages that begins on page ContentStart: the page *)
(* that opens the section (after a notice that belongs to the section      *)
(* before it), a page with the heading that ends the overview, a page with *)
(* the outlook.  Section four follows.  Every page carries the running     *)
(* header and a page-number footer.                                        *)
(***************************************************************************)
ContentStart == MIN_START_PAGE

R_SectionThreeWide == <<31532, 19977, 33410, 12288, 31649, 29702, 23618, 35752, 35770, 19982, 20998, 26512>> \* 第三节　管理层讨论与分析
R_Ellipsis == <<8230, 8230, 8230>>                                           \* ………
R_Notice == <<37325, 35201, 25552, 31034, 65306, 26412, 25253, 21578, 20869, 23481, 30495, 23454, 12290>> \* 重要提示：本报告内容真实。
R_Industry == <<19968, 12289, 25253, 21578, 26399, 20869, 20844, 21496, 25152, 22788, 34892, 19994, 24773, 20917>> \* 一、报告期内公司所处行业情况
R_Business == <<20108, 12289, 25253, 21578, 26399, 20869, 20844, 21496, 20174, 20107, 30340, 20027, 35201, 19994, 21153>> \* 二、报告期内公司从事的主要业务
R_Core == <<19977, 12289, 25253, 21578, 26399, 20869, 26680, 24515, 31454, 20105, 21147, 20998, 26512>> \* 三、报告期内核心竞争力分析
R_Three == <<19977, 12289>>                                                  \* 三、
R_CoreBracket == <<65288, 19977, 65289, 26680, 24515, 31454, 20105, 21147, 20998, 26512>> \* （三）核心竞争力分析
R_MainBusiness == <<20108, 12289, 20027, 33829, 19994, 21153, 20998, 26512>> \* 二、主营业务分析
R_FutureSeq == <<21313, 19968, 12289, 20844, 21496, 26410, 26469, 21457, 23637, 30340, 23637, 26395>> \* 十一、公司未来发展的展望
R_FutureBracket == <<65288, 19977, 65289, 26410, 26469, 35268, 21010>>      \* （三）未来规划
R_Eleven == <<21313, 19968, 12289>>                                          \* 十一、
R_FutureTitle == <<20844, 21496, 26410, 26469, 21457, 23637, 30340, 23637, 26395>> \* 公司未来发展的展望
R_NextOrdinal == <<21313, 20108, 12289, 20854, 20182, 35828, 26126>>        \* 十二、其他说明
R_Item == <<49, 12289, 39033, 30446, 19968>>                                 \* 1、项目一
R_Important == <<21313, 19977, 12289, 37325, 35201, 20107, 39033>>          \* 十三、重要事项
R_Text == <<20844, 21496, 23558, 32487, 32493, 21457, 23637, 12290>>        \* 公司将继续发展。

RECURSIVE WideDecimal(_)
\* str(n) in full-width digits
WideDecimal(n) ==
    IF n < 10 THEN <<65296 + n>> ELSE WideDecimal(n \div 10) \o <<65296 + (n % 10)>>

\* a paragraph of n characters on one line
Paragraph(n) == [i \in 1..n |-> 25991]                                       \* 文

\* the running header and the footer of page p
Header == R_CompanyName \o R_ReportTitle \o <<NL>>
Footer(p) == Decimal(p + 1) \o <<NL>>

\* the characters of the opening page before the paragraph, once normalized
OverviewOverhead == Len(R_SectionThreeWide) + Len(R_Industry) + 2

\* the opening page: the overview is one character short of the limit
\* ("under"), exactly at the limit ("exact"), or far below it ("tiny")
OpeningPage(c) ==
    R_Notice \o <<NL>>
    \o (IF c.front # "toc_miss" THEN R_SectionThreeWide \o <<NL>> ELSE <<>>)
    \o R_Industry \o <<NL>>
    \o Paragraph(IF c.ov = "tiny" THEN 1
                 ELSE IF c.ov = "under" THEN MIN_OVERVIEW_LEN - OverviewOverhead - 1
                 ELSE MIN_OVERVIEW_LEN - OverviewOverhead) \o <<NL>>

\* the page with the heading that ends the overview
CorePage(c) ==
    (IF c.core = "none" THEN R_Business
     ELSE IF c.core = "seq" THEN R_Core
     ELSE IF c.core = "long" THEN R_Three \o Paragraph(80 - Len(S_HeXinJingZhengLiFenXi) + 1)
                                  \o S_HeXinJingZhengLiFenXi
     ELSE IF c.core = "bracket" THEN R_CoreBracket
     ELSE R_MainBusiness \o <<NL>> \o R_Text \o <<NL>> \o R_Core)
    \o <<NL>> \o R_Text \o <<NL>>

\* the heading of the outlook
FutureHeading(c) ==
    IF c.fut = "seq" THEN R_FutureSeq
    ELSE IF c.fut = "bracket" THEN R_FutureBracket
    ELSE R_Eleven \o <<NL>> \o R_FutureTitle

\* the page with the outlook: its heading and a paragraph that make
\* MIN_FUTURE_LEN characters less c.short, and what follows them
FuturePage(c) ==
    IF c.fut = "none" THEN R_Text \o <<NL>>
    ELSE FutureHeading(c) \o <<NL>>
         \o Paragraph(MIN_FUTURE_LEN - Len(FutureHeading(c)) - 1 - c.short) \o <<NL>>
         \o (IF c.tail = "next" THEN R_NextOrdinal \o <<NL>> \o R_Text \o <<NL>>
             ELSE IF c.tail = "major"
             THEN R_Item \o <<NL>> \o R_Important \o <<NL>> \o R_Text \o <<NL>>
             ELSE <<>>)

\* The raw text of page p of the content document c
ContentPage(c, p) ==
    IF p = 0 THEN R_CompanyName \o <<NL>> \o R_ReportTitle \o <<NL>>
    ELSE Header
         \o (IF p = 1
             THEN R_TocTitle \o <<NL>> \o R_SectionThreeWide
                  \o (IF c.front # "scan" THEN R_Ellipsis \o WideDecimal(ContentStart + 1)
                      ELSE <<>>)
                  \o <<CR, NL>>
             ELSE IF p = ContentStart THEN OpeningPage(c)
             ELSE IF p = ContentStart + 1 THEN CorePage(c)
             ELSE IF p = ContentStart + 2 THEN FuturePage(c)
             ELSE IF p = ContentStart + 3 THEN R_SectionFour \o <<NL>> \o R_Text \o <<NL>>
             ELSE R_Body \o <<65 + p, 12290, NL>>)
         \o Footer(p)

ContentDocument(c) == [i \in 1..NumPages |-> ContentPage(c, i - 1)]

Fronts == {"scan", "toc", "toc_miss"}
Overviews == {"tiny", "under", "exact"}
Cores == {"none", "seq", "long", "bracket", "both"}

\* every opening and overview without an outlook, and every outlook behind a
\* short overview
Contents ==
    [front : Fronts, ov : Overviews, core : Cores, fut : {"none"}, short : {0}, tail : {"none"}]
    \cup
    [front : {"scan", "toc_miss"}, ov : {"tiny"}, core : {"none", "seq"},
     fut : {"seq", "bracket", "split"}, short : {0, 1}, tail : {"none", "next", "major"}]

Documents ==
    {LayoutDocument(d) : d \in Layouts} \cup {ContentDocument(c) : c \in Contents}

(***************************************************************************)
(* The texts _slice_to_next_ordinal is called on: the heading of a section *)
(* and up to MaxSliceLines lines after it, each a nested item, a major     *)
(* heading, a heading with another delimiter, a major heading whose        *)
(* keyword lies beyond the title, an item with an arabic ordinal, or an    *)
(* empty line.  The call starts at the heading, at a line break, or        *)
(* nowhere (start_idx is None).                                            *)
(***************************************************************************)
MaxSliceLines == 3

L_Start == <<20108, 12289, 32463, 33829, 24773, 20917>>                      \* 二、经营情况
L_Nested == <<19977, 12289, 28145, 22323, 20998, 20844, 21496, 24773, 20917>> \* 三、深圳分公司情况
L_Major == <<22235, 12289, 20844, 21496, 27835, 29702>>                      \* 四、公司治理
L_Period == <<22235, 46, 20844, 21496, 27835, 29702>>                        \* 四.公司治理
L_Four == <<22235, 12289>>                                                   \* 四、
L_Governance == <<20844, 21496, 27835, 29702>>                               \* 公司治理
L_Far == L_Four \o Paragraph(60 - Len(L_Governance) + 1) \o L_Governance
L_Item == <<51, 12289, 20854, 20182, 39033, 30446>>                          \* 3、其他项目
L_Blank == <<>>

SliceLines == {L_Nested, L_Major, L_Period, L_Far, L_Item, L_Blank}

SliceTexts ==
    {JoinLines(<<L_Start>> \o ls) :
        ls \in UNION {[1..n -> SliceLines] : n \in 1..MaxSliceLines}}

SliceOrdinals == {<<20108>>, <<19977>>}                                      \* 二 三

\* the offsets a caller passes: m.start() of a heading match, or None
SliceStarts(t) == {NoIndex, 0} \cup {i \in 0..(Len(t) - 1) : t[i + 1] = NL}

Init ==
    /\ pages \in Documents
    /\ pc = "seek_toc"
    /\ toc_page = NoIndex
    /\ toc_pages = {}
    /\ page_num = NoIndex
    /\ start_page = NoIndex
    /\ scan_start = NoIndex
    /\ mda_text = <<>>
    /\ management_overview = None
    /\ future = None
    /\ result = Pending
    /\ text = <<>>
    /\ current_ordinal = <<>>
    /\ SliceIdle
    /\ OrdinalIdle
    /\ NormalizeIdle
    /\ ReflowIdle
    /\ ReportIdle
    /\ CrawlIdle
    /\ KeywordIdle
    /\ BoundaryIdle

Next ==
    \/ SeekToc
    \/ TocLookup
    \/ ValidateTocHit
    \/ ScanFallback
    \/ NotFound
    \/ CaptureEnd
    \/ NothingCaptured
    \/ Truncate
    \/ Overview
    \/ SafetyNet
    \/ Future
    \/ SanityChecks
    \/ Return

Spec == Init /\ [][Next]_vars

SliceInit ==
    /\ text \in SliceTexts
    /\ start_idx \in SliceStarts(text)
    /\ current_ordinal \in SliceOrdinals
    /\ sliced = None
    /\ slice_pc = "call"
    /\ MdaIdle
    /\ OrdinalIdle
    /\ NormalizeIdle
    /\ ReflowIdle
    /\ ReportIdle
    /\ CrawlIdle
    /\ KeywordIdle
    /\ BoundaryIdle

SliceNext == SliceToNextOrdinal

SliceSpec == SliceInit /\ [][SliceNext]_vars

(***************************************************************************)
(* The ordinals _next_ordinal_candidates is called with: every token of    *)
(* up to MaxOrdinalLen characters among the Chinese numerals, the ASCII    *)
(* digits and a full-width digit.                                          *)
(***************************************************************************)
MaxOrdinalLen == 2

OrdinalAlphabet == CnNumerals \cup AsciiDigits \cup {65298}                    \* ２

OrdinalTokens == UNION {[1..n -> OrdinalAlphabet] : n \in 0..MaxOrdinalLen}

OrdinalInit ==
    /\ current_ordinal \in OrdinalTokens
    /\ candidates = <<>>
    /\ ordinal_pc = "call"
    /\ text = <<>>
    /\ MdaIdle
    /\ SliceIdle
    /\ NormalizeIdle
    /\ ReflowIdle
    /\ ReportIdle
    /\ CrawlIdle
    /\ KeywordIdle
    /\ BoundaryIdle

OrdinalNext == NextOrdinalCandidates

OrdinalSpec == OrdinalInit /\ [][OrdinalNext]_vars

(***************************************************************************)
(* The texts normalize is called with: up to MaxNormalizeParts pieces      *)
(* among a digit, a space, a line break, a slash, a letter and the header  *)
(* words 年度报告.                                                         *)
(***************************************************************************)
MaxNormalizeParts == 4

NormalizeParts == {<<49>>, <<SP>>, <<NL>>, <<47>>, <<97>>, S_NianDuBaoGao}

NormalizeTexts ==
    {Glued(parts) : parts \in UNION {[1..n -> NormalizeParts] : n \in 0..MaxNormalizeParts}}

NormalizeInit ==
    /\ text \in NormalizeTexts
    /\ normalized = <<>>
    /\ renormalized = <<>>
    /\ normalize_pc = "call"
    /\ current_ordinal = <<>>
    /\ MdaIdle
    /\ SliceIdle
    /\ OrdinalIdle
    /\ ReflowIdle
    /\ ReportIdle
    /\ CrawlIdle
    /\ KeywordIdle
    /\ BoundaryIdle

NormalizeNext == Normalize \/ NormalizeAgain

NormalizeSpec == NormalizeInit /\ [][NormalizeNext]_vars

(***************************************************************************)
(* The texts safe_block is called with: up to MaxReflowLines lines among   *)
(* the kinds below; a long token, a blank line and a section title on      *)
(* their own or after a sentence; and runs of up to MaxShortRun short      *)
(* lines, before and after a longer line or a heading.                     *)
(***************************************************************************)
MaxReflowLines == 3
MaxShortRun == 15

F_PageNumber == <<49, 50>>                                        \* 12
F_Header == <<50, 48, 50, 51, 24180, 24180, 24230, 25253, 21578>> \* 2023年年度报告
F_ShortHeading == <<19968, 12289, 27010, 36848>>                  \* 一、概述
F_LongHeading == <<65288, 19968, 65289, 20027, 35201, 19994, 21153, 24773, 20917, 35828, 26126>> \* （一）主要业务情况说明
F_Short == <<33829, 19994, 25910, 20837>>                         \* 营业收入
F_Sentence == <<20844, 21496, 32463, 33829, 20445, 25345, 31283, 20581, 12290>> \* 公司经营保持稳健。
F_Open == <<25253, 21578, 26399, 20869, 25910, 20837, 60, 25104, 26412, 38, 36153, 29992>> \* 报告期内收入<成本&费用
F_Label == <<21512, 35745, 65306>>                                \* 合计：
F_Url == <<119, 119, 119, 46, 101, 120, 97, 109, 112, 108, 101, 46, 99, 111, 109, 47, 114, 101, 112, 111, 114, 116, 115, 47, 97, 110, 110, 117, 97, 108, 45, 50, 48, 50, 51, 46, 112, 100, 102>> \* www.example.com/reports/annual-2023.pdf
F_Blank == <<12288, 32>>                                          \* \u3000 
F_Section == <<31532, 19977, 33410, 32, 31649, 29702, 23618, 35752, 35770, 19982, 20998, 26512>> \* 第三节 管理层讨论与分析

ReflowLines ==
    {F_PageNumber, F_Header, F_ShortHeading, F_LongHeading, F_Short, F_Sentence, F_Open, F_Label}

SpecialLines == {F_Url, F_Blank, F_Section}

\* the short line number i: a letter, a digit and "z"
ShortLineNo(i) == <<97 + (i \div 10), 48 + (i % 10), 122>>

\* a short lines, the line mid if any, b short lines
RunLines(a, mid, b) ==
    [i \in 1..a |-> ShortLineNo(i)] \o mid \o [i \in 1..b |-> ShortLineNo(a + i)]

ReflowTexts ==
    {JoinLines(ls) : ls \in UNION {[1..n -> ReflowLines] : n \in 0..MaxReflowLines}}
    \cup {JoinLines(pre \o <<l>>) : pre \in {<<>>, <<F_Sentence>>, <<F_PageNumber>>}, l \in SpecialLines}
    \cup {JoinLines(RunLines(a, mid, b)) :
            a \in 0..MaxShortRun, b \in 0..MaxShortRun,
            mid \in {<<>>, <<F_Sentence>>, <<F_LongHeading>>}}

ReflowInit ==
    /\ text \in ReflowTexts
    /\ tmp = <<>>
    /\ merged = <<>>
    /\ lines = <<>>
    /\ paras = <<>>
    /\ cleaned = <<>>
    /\ html_lines = <<>>
    /\ html = <<>>
    /\ reflow_pc = "call"
    /\ current_ordinal = <<>>
    /\ MdaIdle
    /\ SliceIdle
    /\ OrdinalIdle
    /\ NormalizeIdle
    /\ ReportIdle
    /\ CrawlIdle
    /\ KeywordIdle
    /\ BoundaryIdle

ReflowNext ==
    \/ Placeholder
    \/ FilterAndSoften
    \/ MergeShort
    \/ ReflowParagraphs
    \/ Render

ReflowSpec == ReflowInit /\ [][ReflowNext]_vars

(***************************************************************************)
(* daily_report.py main: runs of the report, one at a time, beside the     *)
(* crawler's inserts into annual_report_mda and the passing of time.  A    *)
(* run is taken in the steps between which the table can change: the       *)
(* start, which reads the clock, the query (or the look for the PDF), and  *)
(* the email step.  The configuration is read at the start and used in the *)
(* email step only, where it is chosen.  Beside the program's state are    *)
(* kept: reported, the rows the incremental runs fetched; fresh, the rows  *)
(* inserted when the state file recorded an earlier time; used, the        *)
(* options --only-email and --today-only the incremental runs had;         *)
(* printed, the rows that any run put into a PDF.  At the start the state  *)
(* file is absent, or an earlier run wrote it at time 0 and may have left  *)
(* the PDF of that day.                                                    *)
(***************************************************************************)

MaxClock == 2

MaxRows == 1

Days == 0..today(MaxClock)

Manual == manual_publish_date(args)

Ids(fetched) == {r.id : r \in fetched}

\* the process ends: its variables are gone
Exit ==
    /\ args' = NoArgs
    /\ now' = 0
    /\ rows' = {}
    /\ report_pc' = "idle"

\* lines 599-647: the arguments and the clock are read
StartReport ==
    /\ report_pc = "idle"
    /\ \E d \in {Absent, EmptyDate} \cup Days, ne, oe, t \in BOOLEAN :
           args' = [date |-> d, no_email |-> ne, only_email |-> oe, today_only |-> t]
    /\ now' = clock
    /\ used' = IF manual_publish_date(args') THEN used
               ELSE [used EXCEPT !.only_email = @ \/ args'.only_email,
                                 !.today_only = @ \/ args'.today_only]
    /\ report_pc' = "fetch"
    /\ UNCHANGED <<clock, annual_report_mda, last_sent_json, pdf_files, rows, reported, printed, fresh>>
    /\ UNCHANGED not_report_vars

\* lines 612-624: --date, the rows of that publish_date
FetchByPublishDate ==
    /\ report_pc = "fetch"
    /\ Manual
    /\ ~args.only_email
    /\ IF fetch_rows_by_publish_date(annual_report_mda, args.date) = {}
       THEN Exit /\ UNCHANGED pdf_files
       ELSE /\ rows' = fetch_rows_by_publish_date(annual_report_mda, args.date)
            /\ pdf_files' = generate_daily_summary_pdf(pdf_files, OutPdf(args, now))
            /\ report_pc' = "email"
            /\ UNCHANGED <<args, now>>
    /\ printed' = printed \cup Ids(fetch_rows_by_publish_date(annual_report_mda, args.date))
    /\ UNCHANGED <<clock, annual_report_mda, last_sent_json, reported, fresh, used>>
    /\ UNCHANGED not_report_vars

\* lines 633-652: the rows created in (start_at, now]
Fetched ==
    fetch_rows_by_created_at_range(
        annual_report_mda, StartAt(args, load_last_sent_at(last_sent_json), now), now)

\* lines 649-663: with no row the state file is written and the run ends
FetchByCreatedAt ==
    /\ report_pc = "fetch"
    /\ ~Manual
    /\ ~args.only_email
    /\ reported' = reported \cup Ids(Fetched)
    /\ printed' = printed \cup Ids(Fetched)
    /\ IF Fetched = {}
       THEN /\ last_sent_json' = save_last_sent_at(now)
            /\ Exit
            /\ UNCHANGED pdf_files
       ELSE /\ rows' = Fetched
            /\ pdf_files' = generate_daily_summary_pdf(pdf_files, OutPdf(args, now))
            /\ report_pc' = "email"
            /\ UNCHANGED <<last_sent_json, args, now>>
    /\ UNCHANGED <<clock, annual_report_mda, fresh, used>>
    /\ UNCHANGED not_report_vars

\* lines 625-628, 664-667: --only-email, the PDF of the day has to exist
FindPdf ==
    /\ report_pc = "fetch"
    /\ args.only_email
    /\ IF OutPdf(args, now) \in pdf_files
       THEN report_pc' = "email" /\ UNCHANGED <<args, now, rows>>
       ELSE Exit
    /\ UNCHANGED <<clock, annual_report_mda, last_sent_json, pdf_files, reported, printed, fresh, used>>
    /\ UNCHANGED not_report_vars

\* EmailDisabled, the state file written with --date too
EmailDisabledWritesAlways ==
    /\ report_pc = "email"
    /\ \E enabled \in BOOLEAN : ~Enabled(enabled, args)
    /\ last_sent_json' = save_last_sent_at(now)
    /\ Exit
    /\ UNCHANGED <<clock, annual_report_mda, pdf_files, reported, printed, fresh, used>>
    /\ UNCHANGED not_report_vars

\* lines 695-698: email not enabled, the state file written unless --date
EmailDisabled ==
    /\ report_pc = "email"
    /\ \E enabled \in BOOLEAN : ~Enabled(enabled, args)
    /\ last_sent_json' = IF Manual THEN last_sent_json ELSE save_last_sent_at(now)
    /\ Exit
    /\ UNCHANGED <<clock, annual_report_mda, pdf_files, reported, printed, fresh, used>>
    /\ UNCHANGED not_report_vars

\* lines 673-684: email enabled and no recipient
NoRecipient ==
    /\ report_pc = "email"
    /\ \E enabled \in BOOLEAN, to_list \in {<<>>, <<"a@example.com">>} :
           Enabled(enabled, args) /\ to_list = <<>>
    /\ Exit
    /\ UNCHANGED <<clock, annual_report_mda, last_sent_json, pdf_files, reported, printed, fresh, used>>
    /\ UNCHANGED not_report_vars

\* lines 686-694: the PDF of the day sent, the state file written unless --date
SendEmail ==
    /\ report_pc = "email"
    /\ \E enabled \in BOOLEAN, to_list \in {<<>>, <<"a@example.com">>} :
           Enabled(enabled, args) /\ to_list # <<>>
    /\ last_sent_json' = IF Manual THEN last_sent_json ELSE save_last_sent_at(now)
    /\ Exit
    /\ UNCHANGED <<clock, annual_report_mda, pdf_files, reported, printed, fresh, used>>
    /\ UNCHANGED not_report_vars

\* SendFails with the slip of writing the state file before the send
SendFailsAfterSave ==
    /\ report_pc = "email"
    /\ \E enabled \in BOOLEAN, to_list \in {<<>>, <<"a@example.com">>} :
           Enabled(enabled, args) /\ to_list # <<>>
    /\ last_sent_json' = IF Manual THEN last_sent_json ELSE save_last_sent_at(now)
    /\ Exit
    /\ UNCHANGED <<clock, annual_report_mda, pdf_files, reported, printed, fresh, used>>
    /\ UNCHANGED not_report_vars

\* lines 546-556, 690: send_email_with_attachment_smtp raises, the run ends there
SendFails ==
    /\ report_pc = "email"
    /\ \E enabled \in BOOLEAN, to_list \in {<<>>, <<"a@example.com">>} :
           Enabled(enabled, args) /\ to_list # <<>>
    /\ Exit
    /\ UNCHANGED <<clock, annual_report_mda, last_sent_json, pdf_files, reported, printed, fresh, used>>
    /\ UNCHANGED not_report_vars

\* main.py lines 63-76: the crawler's INSERT INTO annual_report_mda; the
\* database stamps created_at with its clock
InsertMda ==
    /\ Cardinality(annual_report_mda) < MaxRows
    /\ \A r \in annual_report_mda : r.committed
    /\ \E d \in Days :
           annual_report_mda' = annual_report_mda \cup
               {[id |-> Cardinality(annual_report_mda) + 1, created_at |-> clock,
                 publish_date |-> d, committed |-> FALSE]}
    /\ fresh' = IF last_sent_json # Absent /\ clock > last_sent_json
                THEN fresh \cup {Cardinality(annual_report_mda) + 1}
                ELSE fresh
    /\ UNCHANGED <<clock, last_sent_json, pdf_files, args, now, rows, report_pc, reported, printed, used>>
    /\ UNCHANGED not_report_vars

\* main.py line 77: self.conn.commit()
CommitMda ==
    /\ \E r \in annual_report_mda :
           /\ ~r.committed
           /\ annual_report_mda' = (annual_report_mda \ {r}) \cup {[r EXCEPT !.committed = TRUE]}
    /\ UNCHANGED <<clock, last_sent_json, pdf_files, args, now, rows, report_pc, reported, printed,
                   fresh, used>>
    /\ UNCHANGED not_report_vars

\* a second passes
Tick ==
    /\ clock < MaxClock
    /\ clock' = clock + 1
    /\ UNCHANGED <<annual_report_mda, last_sent_json, pdf_files, args, now, rows, report_pc,
                   reported, printed, fresh, used>>
    /\ UNCHANGED not_report_vars

ReportInit ==
    /\ MdaIdle
    /\ SliceIdle
    /\ OrdinalIdle
    /\ NormalizeIdle
    /\ ReflowIdle
    /\ text = <<>>
    /\ current_ordinal = <<>>
    /\ clock = 0
    /\ annual_report_mda = {}
    /\ last_sent_json \in {Absent, 0}
    /\ pdf_files \in (IF last_sent_json = Absent THEN {{}} ELSE {{}, {today(0)}})
    /\ args = NoArgs
    /\ now = 0
    /\ rows = {}
    /\ report_pc = "idle"
    /\ reported = {}
    /\ printed = {}
    /\ fresh = {}
    /\ used = NoArgs
    /\ CrawlIdle
    /\ KeywordIdle
    /\ BoundaryIdle

ReportNext ==
    \/ StartReport
    \/ FetchByPublishDate
    \/ FetchByCreatedAt
    \/ FindPdf
    \/ EmailDisabled
    \/ NoRecipient
    \/ SendEmail
    \/ SendFails
    \/ InsertMda
    \/ CommitMda
    \/ Tick

ReportSpec == ReportInit /\ [][ReportNext]_vars

(***************************************************************************)
(* main.py main: runs of the crawler, one after the other.  A run pages    *)
(* through the announcements of the two exchanges; the server answers a    *)
(* request with an error or with any page of at most MaxPageSize of the    *)
(* Announcements below.  Times are in days, the run is on day end_date.    *)
(***************************************************************************)

MaxPageSize == 2

end_date == 40

T_Annual == <<50, 48, 50, 52, 24180, 24180, 24230, 25253, 21578>>            \* 2024年年度报告
T_FullText == <<50, 48, 50, 52, 24180, 24230, 25253, 21578, 20840, 25991>>   \* 2024年度报告全文
T_NextYear == <<50, 48, 50, 53, 24180, 24180, 24230, 25253, 21578>>          \* 2025年年度报告
T_Summary == <<50, 48, 50, 52, 24180, 24180, 24230, 25253, 21578, 25688, 35201>> \* 2024年年度报告摘要

\* a report, the same report of the same company under another file, the
\* company's report of the next year, a summary, and an old report
Announcements ==
    {[announcementTitle |-> T_Annual, secCode |-> "000001", announcementTime |-> 20,
      adjunctUrl |-> "a.PDF"],
     [announcementTitle |-> T_FullText, secCode |-> "000001", announcementTime |-> 21,
      adjunctUrl |-> "b.PDF"],
     [announcementTitle |-> T_NextYear, secCode |-> "000001", announcementTime |-> 22,
      adjunctUrl |-> "c.PDF"],
     [announcementTitle |-> T_Summary, secCode |-> "600000", announcementTime |-> 20,
      adjunctUrl |-> "d.PDF"],
     [announcementTitle |-> T_Annual, secCode |-> "600000", announcementTime |-> 5,
      adjunctUrl |-> "e.PDF"]}

ServerPages == UNION {[1..n -> Announcements] : n \in 0..MaxPageSize}

\* the announcement in hand
Ann == Head(announcements)

\* line 712 is reached for it, and the pair is not stored
ToFetch ==
    /\ Wanted(Ann, end_date)
    /\ ~exists(annual_reports, Ann.secCode, YearOf(Ann.announcementTitle))

\* lines 573-574, 643-650, 780-785: break, on to the next exchange or the end
NextExchange ==
    /\ IF col = "szse"
       THEN col' = "sse" /\ crawl_pc' = "request"
       ELSE col' = "szse" /\ crawl_pc' = "idle"
    /\ page' = 1
    /\ attempt' = 1
    /\ announcements' = <<>>
    /\ processed_this_page' = 0
    /\ stop_after_page' = FALSE

\* lines 533-574
StartCrawl ==
    /\ crawl_pc = "idle"
    /\ crawl_pc' = "request"
    /\ UNCHANGED <<annual_reports, mda_report_id, downloads, col, page, attempt, announcements,
                   processed_this_page, stop_after_page>>
    /\ UNCHANGED not_crawl_vars

\* lines 592-604: the request fails; the third failure is an empty page
RequestFails ==
    /\ crawl_pc = "request"
    /\ IF attempt = MAX_RETRY
       THEN NextExchange
       ELSE /\ attempt' = attempt + 1
            /\ UNCHANGED <<crawl_pc, col, page, announcements, processed_this_page,
                           stop_after_page>>
    /\ UNCHANGED <<annual_reports, mda_report_id, downloads>>
    /\ UNCHANGED not_crawl_vars

\* lines 592-652: the request is answered with a page
RequestReturns ==
    /\ crawl_pc = "request"
    /\ \E anns \in ServerPages :
           IF PagingEnds(anns, page, end_date)
           THEN NextExchange
           ELSE /\ announcements' = anns
                /\ stop_after_page' = StopAfterPage(anns, end_date)
                /\ processed_this_page' = 0
                /\ crawl_pc' = "page"
                /\ UNCHANGED <<col, page, attempt>>
    /\ UNCHANGED <<annual_reports, mda_report_id, downloads>>
    /\ UNCHANGED not_crawl_vars

\* lines 657-713: not an annual report of the window, or a pair already stored
SkipAnnouncement ==
    /\ crawl_pc = "page"
    /\ announcements # <<>>
    /\ ~ToFetch
    /\ announcements' = Tail(announcements)
    /\ UNCHANGED <<annual_reports, mda_report_id, downloads, crawl_pc, col, page, attempt,
                   processed_this_page, stop_after_page>>
    /\ UNCHANGED not_crawl_vars

\* lines 719-737: the file is not there and MAX_RETRY downloads fail
DownloadFails ==
    /\ crawl_pc = "page"
    /\ announcements # <<>>
    /\ ToFetch
    /\ Ann.adjunctUrl \notin downloads
    /\ announcements' = Tail(announcements)
    /\ UNCHANGED <<annual_reports, mda_report_id, downloads, crawl_pc, col, page, attempt,
                   processed_this_page, stop_after_page>>
    /\ UNCHANGED not_crawl_vars

\* lines 715-761: the file is there or downloaded; it cannot be read, has
\* fewer than 50 pages, or extract_mda raises or finds no section three
RejectPdf ==
    /\ crawl_pc = "page"
    /\ announcements # <<>>
    /\ ToFetch
    /\ downloads' = downloads \cup {Ann.adjunctUrl}
    /\ announcements' = Tail(announcements)
    /\ UNCHANGED <<annual_reports, mda_report_id, crawl_pc, col, page, attempt,
                   processed_this_page, stop_after_page>>
    /\ UNCHANGED not_crawl_vars

\* lines 715-778: the file is there or downloaded, section three is found,
\* and the rows of annual_reports and annual_report_mda are inserted
StoreReport ==
    /\ crawl_pc = "page"
    /\ announcements # <<>>
    /\ ToFetch
    /\ downloads' = downloads \cup {Ann.adjunctUrl}
    /\ annual_reports' = insert_report(annual_reports, Ann.secCode, YearOf(Ann.announcementTitle))
    /\ mda_report_id' = mda_report_id \cup {Cardinality(annual_reports) + 1}
    /\ processed_this_page' = processed_this_page + 1
    /\ announcements' = Tail(announcements)
    /\ UNCHANGED <<crawl_pc, col, page, attempt, stop_after_page>>
    /\ UNCHANGED not_crawl_vars

\* lines 780-788: the page is done
EndPage ==
    /\ crawl_pc = "page"
    /\ announcements = <<>>
    /\ IF (processed_this_page = 0 /\ page >= IDLE_FROM_PAGE) \/ stop_after_page
       THEN NextExchange
       ELSE /\ page' = page + 1
            /\ attempt' = 1
            /\ crawl_pc' = "request"
            /\ UNCHANGED <<col, announcements, processed_this_page, stop_after_page>>
    /\ UNCHANGED <<annual_reports, mda_report_id, downloads>>
    /\ UNCHANGED not_crawl_vars

CrawlInit ==
    /\ MdaIdle
    /\ SliceIdle
    /\ OrdinalIdle
    /\ NormalizeIdle
    /\ ReflowIdle
    /\ ReportIdle
    /\ CrawlIdle
    /\ text = <<>>
    /\ current_ordinal = <<>>
    /\ KeywordIdle
    /\ BoundaryIdle

CrawlNext ==
    \/ StartCrawl
    \/ RequestFails
    \/ RequestReturns
    \/ SkipAnnouncement
    \/ DownloadFails
    \/ RejectPdf
    \/ StoreReport
    \/ EndPage

CrawlSpec == CrawlInit /\ [][CrawlNext]_vars

(***************************************************************************)
(* The texts extract_section_by_keywords is called on: up to               *)
(* MaxKeywordLines lines, as normalize leaves them (stripped, none blank), *)
(* each a sequential or a bracketed heading with or without a keyword in   *)
(* its title, a bracketed ordinal on a line of its own, or a sentence.     *)
(***************************************************************************)
MaxKeywordLines == 3

K_SeqFuture == <<20116, 12289, 26410, 26469, 35268, 21010>>                   \* 五、未来规划
K_BracketPlan == <<65288, 19968, 65289, 21457, 23637, 35268, 21010>>          \* （一）发展规划
K_BracketFuture == <<40, 50, 41, 26410, 26469, 35268, 21010>>                 \* (2)未来规划
K_BracketOther == <<65288, 19977, 65289, 20854, 20182>>                       \* （三）其他
K_BracketAlone == <<65288, 22235, 65289>>                                     \* （四）
K_Major == <<20845, 12289, 20854, 20182>>                                     \* 六、其他
K_Colon == <<20845, 65306, 20854, 20182>>                                     \* 六：其他
K_Body == <<21457, 23637, 12290>>                                             \* 发展。

KeywordLines ==
    {K_SeqFuture, K_BracketPlan, K_BracketFuture, K_BracketOther, K_BracketAlone,
     K_Major, K_Colon, K_Body}

KeywordTexts ==
    {JoinLines(ls) : ls \in UNION {[1..n -> KeywordLines] : n \in 1..MaxKeywordLines}}

KeywordInit ==
    /\ text \in KeywordTexts
    /\ extracted = None
    /\ keyword_pc = "call"
    /\ current_ordinal = <<>>
    /\ start_idx = NoIndex
    /\ sliced = None
    /\ slice_pc = "idle"
    /\ MdaIdle
    /\ OrdinalIdle
    /\ NormalizeIdle
    /\ ReflowIdle
    /\ ReportIdle
    /\ CrawlIdle
    /\ BoundaryIdle

KeywordNext == ExtractSectionByKeywords

KeywordSpec == KeywordInit /\ [][KeywordNext]_vars

(***************************************************************************)
(* The calls of the four slicers: a text of up to MaxBoundaryLines lines,  *)
(* each a nested item, a major heading written with 、 or with a period, a *)
(* bracketed heading with a stop title, a sentence or a blank line; a      *)
(* start offset anywhere in the text, or None; the ordinal 二.             *)
(***************************************************************************)
MaxBoundaryLines == 3

B_Nested == <<19977, 12289, 28145, 22323>>                                    \* 三、深圳
B_BracketStop == <<40, 51, 41, 37325, 35201, 20107, 39033>>                   \* (3)重要事项
B_Body == <<21457, 23637, 12290>>                                             \* 发展。

BoundaryLines == {B_Nested, L_Major, L_Period, B_BracketStop, B_Body, L_Blank}

BoundaryTexts ==
    {JoinLines(ls) : ls \in UNION {[1..n -> BoundaryLines] : n \in 1..MaxBoundaryLines}}

BoundaryInit ==
    /\ text \in BoundaryTexts
    /\ start_idx \in {NoIndex} \cup 0..(Len(text) - 1)
    /\ current_ordinal = <<20108>>
    /\ sliced = None
    /\ slice_pc = "idle"
    /\ helper = "none"
    /\ window = None
    /\ end_idx = NoIndex
    /\ boundary_pc = "call"
    /\ MdaIdle
    /\ OrdinalIdle
    /\ NormalizeIdle
    /\ ReflowIdle
    /\ ReportIdle
    /\ CrawlIdle
    /\ KeywordIdle

BoundaryNext ==
    \/ CallSliceToNextOrdinal
    \/ CallSliceToNextMajorHeading
    \/ CallSliceToNextTitledHeading
    \/ CallSliceToNextBracketHeading

BoundarySpec == BoundaryInit /\ [][BoundaryNext]_vars

(***************************************************************************)
(* The texts of the line filter of normalize: up to MaxDropLines lines,    *)
(* for each rule of the filter a line that only that rule drops and a line *)
(* that comes close to the rule, and lines with blanks.                    *)
(***************************************************************************)
MaxDropLines == 2

D_Blank == <<>>
D_Page == <<49, 50>>                                                          \* 12
D_FiveDigits == <<49, 50, 51, 52, 53>>                                        \* 12345
D_PageOf == <<49, 32, 47, 32, 50>>                                            \* 1 / 2
D_FiveOf == <<49, 50, 51, 52, 53, 47, 49>>                                    \* 12345/1
D_Header == S_GuFenYouXianGongSi \o Paragraph(21) \o S_NianDuBaoGao           \* 31 characters
D_Code == S_GongSiDaiMa \o <<49>>                                             \* 公司代码：1
D_ShortName == S_GongSiJianCheng \o <<97>>                                    \* 公司简称：a
D_CodeInside == <<97>> \o S_GongSiDaiMa \o <<49>>                             \* a公司代码：1
D_ShortNameInside == <<97>> \o S_GongSiJianCheng \o <<98>>                    \* a公司简称：b
D_Company == <<97>> \o S_YouXianGongSi                                        \* a有限公司
D_LongCompany == Paragraph(27) \o S_YouXianGongSi                             \* 31 characters
D_Report == S_NianDuBaoGao \o <<97>>                                          \* 年度报告a
D_LongReport == S_NianDuBaoGao \o Paragraph(17)                               \* 21 characters
D_Border == <<45, 43, 124>>                                                   \* -+|
D_ShortBorder == <<45, 45>>                                                   \* --
D_FullText == S_NianDuBaoGaoQuanWen \o Paragraph(15)                          \* 21 characters
D_Body == <<32, 97, 32, 98>>                                                  \*  a b

DropLines ==
    {D_Blank, D_Page, D_FiveDigits, D_PageOf, D_FiveOf, D_Header, D_Code, D_ShortName,
     D_CodeInside, D_ShortNameInside, D_Company, D_LongCompany, D_Report, D_LongReport,
     D_Border, D_ShortBorder, D_FullText, D_Body}

DropTexts ==
    {JoinLines(ls) : ls \in UNION {[1..n -> DropLines] : n \in 1..MaxDropLines}}

DropInit ==
    /\ text \in DropTexts
    /\ normalized = <<>>
    /\ renormalized = <<>>
    /\ normalize_pc = "call"
    /\ current_ordinal = <<>>
    /\ MdaIdle
    /\ SliceIdle
    /\ OrdinalIdle
    /\ ReflowIdle
    /\ ReportIdle
    /\ CrawlIdle
    /\ KeywordIdle
    /\ BoundaryIdle

DropSpec == DropInit /\ [][NormalizeNext]_vars

(***************************************************************************)
(* The paging of main.py main on its own: the requests and the pages as in *)
(* CrawlSpec, and the loop over the announcements of a page taken as one   *)
(* step that leaves any number of them processed, whatever the database    *)
(* and the files hold, so that the server can go on with pages that are    *)
(* processed for as long as it likes.  The run goes on by itself: a        *)
(* request is answered or fails (POST_TIMEOUT, line 558), a page is        *)
(* processed and ended.                                                    *)
(***************************************************************************)
\* lines 656-778: for ann in announcements, processed_this_page counted
ProcessPage ==
    /\ crawl_pc = "page"
    /\ announcements # <<>>
    /\ \E n \in 0..Len(announcements) : processed_this_page' = n
    /\ announcements' = <<>>
    /\ UNCHANGED <<annual_reports, mda_report_id, downloads, crawl_pc, col, page, attempt,
                   stop_after_page>>
    /\ UNCHANGED not_crawl_vars

PagingNext ==
    \/ StartCrawl
    \/ RequestFails
    \/ RequestReturns
    \/ ProcessPage
    \/ EndPage

PagingSpec ==
    /\ CrawlInit
    /\ [][PagingNext]_vars
    /\ WF_vars(RequestFails \/ RequestReturns)
    /\ WF_vars(ProcessPage)
    /\ WF_vars(EndPage)

(***************************************************************************)
(* The properties of extract_mda, stated on its variables once the start   *)
(* page is settled and on the result it returns.                           *)
(***************************************************************************)
\* the locator has settled start_page
PastLocator ==
    pc \in {"located", "captured", "overview", "safety_net", "future", "sanity",
            "return", "done"}

\* extract_mda returned a result, not None
ReturnedResult == pc = "done" /\ ~result.none

\* the candidate the contents give is one the validation must reject
RejectedCandidate ==
    /\ page_num # NoIndex
    /\ \/ page_num - 1 < MIN_START_PAGE
       \/ HasTocMarker(extract_text(pages, {page_num - 1}))
       \/ page_num - 1 \in toc_pages

\* page p is one the scan stops at
ScanStopsAt(p) == OpensSectionThree(extract_text(pages, {p}))

\* C1: when the contents list page N for section three, N - 1 >= 5, page
\* N - 1 holds no contents marker and lies outside the contents pages, the
\* start page used for the capture is N - 1 and the scan has not run.
C1_TocPathStartsAtListedMinusOne ==
    (/\ PastLocator
     /\ page_num # NoIndex
     /\ page_num - 1 >= MIN_START_PAGE
     /\ ~HasTocMarker(extract_text(pages, {page_num - 1}))
     /\ page_num - 1 \notin toc_pages)
    => (start_page = page_num - 1 /\ scan_start = NoIndex)

\* a result returned from the start page the contents gave
C1_Witness ==
    /\ ReturnedResult
    /\ page_num # NoIndex
    /\ start_page = page_num - 1
    /\ scan_start = NoIndex

\* C2: a candidate from the contents that is below 5, or whose page holds a
\* contents marker, or that lies among the contents pages, is rejected: the
\* scan runs, from the page after the contents page (from page 0 when there
\* is none), and the start page is the first page the scan stops at, or
\* none when there is no such page.
C2_RejectedCandidateLeavesScanToDecide ==
    (PastLocator /\ RejectedCandidate)
    => /\ scan_start = (IF toc_page # NoIndex THEN toc_page + 1 ELSE 0)
       /\ \/ /\ start_page = NoIndex
             /\ \A p \in scan_start..(SCAN_PAGES - 1) : ~ScanStopsAt(p)
          \/ /\ start_page >= scan_start
             /\ ScanStopsAt(start_page)
             /\ \A p \in scan_start..(start_page - 1) : ~ScanStopsAt(p)

\* a candidate of 5 or more among the contents pages, and a result returned
\* from the page the scan found
C2_Witness ==
    /\ ReturnedResult
    /\ page_num # NoIndex
    /\ page_num - 1 >= MIN_START_PAGE
    /\ page_num - 1 \in toc_pages
    /\ scan_start # NoIndex
    /\ start_page # page_num - 1

\* the first page at or after s whose text matches the section-four marker,
\* s + 200 when there is none
CaptureStop(s) ==
    MinOf({p \in s..(s + CAPTURE_PAGES - 1) : SectionFourSearch(extract_text(pages, {p}))}
          \cup {s + CAPTURE_PAGES})

RECURSIVE InPageOrder(_)
\* the texts of the pages of S, each followed by a newline, in page order
InPageOrder(S) ==
    IF S = {} THEN <<>>
    ELSE extract_text(pages, {MinOf(S)}) \o <<NL>> \o InPageOrder(S \ {MinOf(S)})

\* the texts of the pages p..(q - 1) that have text, in page order
PagesBetween(p, q) == InPageOrder({r \in p..(q - 1) : extract_text(pages, {r}) # <<>>})

\* the text t is span, or the end of span without the blanks around it
EndOf(span, t) == t = span \/ EndsWith(Strip(span), t)

\* C3: the full section text of a result is made of the texts of the pages
\* s <= p < q only, in page order, s the start page and q the first page at
\* or after s that matches the section-four marker (s + 200 when there is
\* none): it is that text or the end of it.
C3_CaptureStopsBeforeSectionFour ==
    ReturnedResult
    => EndOf(PagesBetween(start_page, CaptureStop(start_page)), result.full_mda)

\* a capture of two pages that the section-four page ends
C3_Witness ==
    /\ ReturnedResult
    /\ CaptureStop(start_page) = start_page + 2
    /\ extract_text(pages, {start_page + 1}) # <<>>

\* C4: the full section text of a result is never empty; when a start page
\* was located and the capture gave no text, extract_mda returns None.
C4_FullTextNeverEmpty ==
    pc = "done"
    => /\ (~result.none => result.full_mda # <<>>)
       /\ (start_page # NoIndex
           /\ PagesBetween(start_page, CaptureStop(start_page)) = <<>>
           => result.none)

\* a start page was located, the capture gave nothing, None is returned
C4_Witness ==
    /\ pc = "done"
    /\ start_page # NoIndex
    /\ PagesBetween(start_page, CaptureStop(start_page)) = <<>>
    /\ result.none

\* C5: the full section text of every result begins at the section-three
\* marker, for a start page from the contents as well as from the scan.
C5_FullTextBeginsAtMarker ==
    ReturnedResult => SectionThreeAt(result.full_mda, 0) >= 0

\* C6: when neither the contents nor the scan give a start page,
\* extract_mda returns None.
C6_NoStartPageReturnsNone ==
    (pc = "done" /\ start_page = NoIndex) => result = ReturnedNone

\* the contents gave a candidate, it was rejected, the scan found nothing
C6_Witness ==
    /\ pc = "done"
    /\ start_page = NoIndex
    /\ page_num # NoIndex
    /\ scan_start # NoIndex
    /\ result.none

\* C7: the overview of every result is present, and it has 500 characters
\* or more or is the full section text.
C7_OverviewLongOrFullText ==
    ReturnedResult
    => /\ result.business # None
       /\ \/ Len(result.business) >= MIN_OVERVIEW_LEN
          \/ result.business = result.full_mda

\* a heading of the text, sequential or bracketed, has an outlook keyword in
\* its title
HasFutureHeading(t) ==
    \E k \in 1..Len(future_keywords) : \E kind \in {"seq", "bracket"} :
        \E i \in 0..(Len(t) - 1) : KeywordHeadingAt(t, i, kind, -1, future_keywords[k])

\* the span, absent when it is shorter than 200 characters
LongEnough(span) == IF span = None \/ Len(span) < MIN_FUTURE_LEN THEN None ELSE span

\* C8: the outlook of a result is absent when no sequential and no
\* bracketed heading of the full section text has an outlook keyword in its
\* title, and when the extracted span has fewer than 200 characters;
\* otherwise it is the span, of 200 characters or more.  The rest of the
\* result is returned in each case.
C8_OutlookAbsentOrLong ==
    ReturnedResult
    => /\ result.business # None
       /\ result.full_mda # <<>>
       /\ (~HasFutureHeading(result.full_mda) => result.future = None)
       /\ (result.future # None => Len(result.future) >= MIN_FUTURE_LEN)
       /\ (HasFutureHeading(result.full_mda)
           => result.future =
                  LongEnough(extract_section_by_keywords(result.full_mda, future_keywords,
                                                         <<>>, <<>>)))

\* an outlook heading whose span is too short: the outlook is absent
C8_Witness ==
    /\ ReturnedResult
    /\ HasFutureHeading(result.full_mda)
    /\ result.future = None

\* the overview is the text before offset m_core
EndsAtCore(full_mda, business, m_core) ==
    m_core > 0 => business = Strip(Slice(full_mda, 0, m_core))

\* C9: when the full section text has, at an offset above 0, a first-level
\* heading with 核心竞争力分析 in its title, the overview of the result ends
\* at that heading.
C9_OverviewEndsAtCoreHeading ==
    ReturnedResult
    => EndsAtCore(result.full_mda, result.business, CoreHeadingSearch(result.full_mda))

(***************************************************************************)
(* The properties of _slice_to_next_ordinal.                               *)
(***************************************************************************)
\* the title that begins at offset a, of at most max characters, holds a
\* major-heading keyword
MajorTitleAt(t, a, max) ==
    AnyKeywordIn(Slice(t, a, MinOf({a + max, LineEnd(t, a)})), MAJOR_HEADING_KEYWORDS)

\* the ordinal at offset b is followed, at offset e, by one of the
\* delimiters, and the title after it (blanks skipped when skip) holds a
\* major-heading keyword
MajorAfterOrdinal(t, e, max, skip) ==
    e >= 0 /\ MajorTitleAt(t, IF skip THEN RunEnd(t, e + 1, Spaces) ELSE e + 1, max)

\* a line break at offset i, and after it the heading of a major section:
\* an ordinal, 、 and a title with a major-heading keyword in its first 60
\* characters
MajorHeadingLineAt(t, i) ==
    /\ t[i + 1] = NL
    /\ MajorAfterOrdinal(t, SeqOrdinalEnd(t, RunEnd(t, i + 1, Spaces), DunHao), 60, FALSE)

\* a line break at offset i, and after it a sequential-ordinal heading, with
\* any of the delimiters, whose title holds a major-heading keyword
SequentialMajorLineAt(t, i) ==
    /\ t[i + 1] = NL
    /\ MajorAfterOrdinal(t, SeqOrdinalEnd(t, RunEnd(t, i + 1, Spaces), Delims), 80, TRUE)

FirstMajorHeadingLine(t, s) ==
    FirstOf({i \in (s + 1)..(Len(t) - 1) : MajorHeadingLineAt(t, i)})

FirstSequentialMajorLine(t, s) ==
    FirstOf({i \in (s + 1)..(Len(t) - 1) : SequentialMajorLineAt(t, i)})

\* the slice ends at offset h, when there is such an offset
SliceEndsAt(t, s, h, slice) == h >= 0 => slice = Strip(Slice(t, s, h))

\* the slice ends at offset h, when there is such an offset and the text
\* before it is not blank
SliceEndsAtUnlessBlank(t, s, h, slice) ==
    (h >= 0 /\ Strip(Slice(t, s, h)) # <<>>) => slice = Strip(Slice(t, s, h))

\* C10, as stated: when a sequential-ordinal heading after the start offset
\* has a major-heading keyword in its title, the slice ends at the first
\* such heading.
C10_EndsAtFirstSequentialMajorHeading ==
    (slice_pc = "returned" /\ start_idx >= 0)
    => SliceEndsAt(text, start_idx, FirstSequentialMajorLine(text, start_idx), sliced)

\* C10, amended: when a line after the start offset is the heading of a
\* major section (an ordinal, the delimiter 、 and a title with a
\* major-heading keyword in its first 60 characters) and the text from the
\* start offset to the first such heading is not blank, the slice ends at
\* that heading, also when the next ordinal in sequence occurs before it.
C10_EndsAtFirstMajorHeading ==
    (slice_pc = "returned" /\ start_idx >= 0)
    => SliceEndsAtUnlessBlank(text, start_idx, FirstMajorHeadingLine(text, start_idx), sliced)

\* a line between offsets s and h begins with a next-ordinal candidate and 、
NextOrdinalBetween(t, s, h, cands) ==
    \E j \in (s + 1)..(h - 1) : \E k \in 1..Len(cands) :
        t[j + 1] = NL /\ LitAt(t, RunEnd(t, j + 1, Spaces), cands[k] \o <<12289>>)

\* the slice passed a line of the next ordinal and ended at offset h
PassedNextOrdinal(t, s, h, cands, slice) ==
    h >= 0 /\ NextOrdinalBetween(t, s, h, cands) /\ slice = Strip(Slice(t, s, h))

\* a nested item with the next ordinal lies before the major heading the
\* slice ends at
C10_Witness ==
    /\ slice_pc = "returned"
    /\ start_idx >= 0
    /\ PassedNextOrdinal(text, start_idx, FirstMajorHeadingLine(text, start_idx),
                         _next_ordinal_candidates(current_ordinal), sliced)

(***************************************************************************)
(* The ordinals 1..20 as they are written, computed from their value.      *)
(***************************************************************************)
\* the numerals 一 .. 十 by value
CnDigit == <<19968, 20108, 19977, 22235, 20116, 20845, 19971, 20843, 20061, 21313>>

\* the Chinese numeral of k, 1 <= k <= 20
ChineseNumeral(k) ==
    IF k <= 10 THEN <<CnDigit[k]>>
    ELSE IF k < 20 THEN <<21313, CnDigit[k - 10]>>
    ELSE <<20108, 21313>>

\* the ordinal k written in either system
Written(k) == {ChineseNumeral(k), Decimal(k)}

\* C11: for an ordinal k of 1..19, given as its Chinese numeral or as its
\* Arabic number, the candidates are exactly the Chinese numeral and the
\* Arabic number of k + 1; for 二十 / 20 and for a token that is not in the
\* table there is no candidate.
C11_CandidatesAreNextOrdinal ==
    ordinal_pc = "returned"
    => /\ \A k \in 1..19 :
            current_ordinal \in Written(k)
            => candidates = <<ChineseNumeral(k + 1), Decimal(k + 1)>>
       /\ (\A k \in 1..19 : current_ordinal \notin Written(k)) => candidates = <<>>

\* the candidates of "11" are 十二 and "12"
C11_Witness ==
    /\ ordinal_pc = "returned"
    /\ current_ordinal = <<49, 49>>
    /\ candidates = <<<<21313, 20108>>, <<49, 50>>>>

\* C12: normalizing a text that normalize returned gives that text again.
C12_NormalizeIsIdempotent ==
    normalize_pc = "twice" => renormalized = normalized

\* safe_block has returned
Reflowed == reflow_pc = "done"

\* every line of the text is a header or footer, or blank
EntirelyFiltered == FilterLines(splitlines(text, 0)) = <<>>

\* C13: safe_block never returns an empty or blank result: for an empty
\* text, and for a text all of whose lines the header/footer filter
\* removes, it returns the placeholder block; for any other text it returns
\* at least one block that is not blank.
C13_PlaceholderOrContent ==
    Reflowed
    => IF text = <<>> \/ EntirelyFiltered
       THEN html = S_WeiTiQuDaoNeiRong
       ELSE \E i \in 1..Len(html_lines) : html_lines[i] # <<>>

\* the short lines have been merged
Merged == reflow_pc \in {"reflow", "render", "done"}

\* line i of tmp begins a run of short lines; the line that begins the run
\* of the short line i
BeginsRun(i) == is_short(tmp[i]) /\ (i = 1 \/ ~is_short(tmp[i - 1]))
RunStartOf(i) == MaxOf({a \in 1..i : BeginsRun(a)})
\* the last line of the run of the short line i
RunLastOf(i) ==
    MinOf({b \in i..Len(tmp) : b = Len(tmp) \/ ~is_short(tmp[b + 1])})

\* line i begins an entry of merged: a line that is not short, or every
\* twelfth line of a run from its first on
Leads(i) == ~is_short(tmp[i]) \/ (i - RunStartOf(i)) % 12 = 0
Leaders == {i \in 1..Len(tmp) : Leads(i)}

\* the entry that the leading line i begins: the line itself, or the short
\* lines from i on, twelve at most and to the end of the run, with two
\* spaces between them
EntryOf(i) ==
    IF ~is_short(tmp[i]) THEN tmp[i]
    ELSE JoinWith(SubSeq(tmp, i, MinOf({i + 11, RunLastOf(i)})), <<SP, SP>>)

HeadingBlock(k) == html_lines[k] # <<>> /\ ~StartsWith(html_lines[k], indent)

\* C15: every line that survives the filter and matches the heading grammar
\* is a block of its own in the output, not indented, and every heading
\* block but the first block of the output comes right after a blank block.
C15_HeadingsAreBlocksOfTheirOwn ==
    (Reflowed /\ text # <<>>)
    => /\ \A i \in 1..Len(tmp) :
            heading_re(tmp[i]) => \E k \in 1..Len(html_lines) : html_lines[k] = escape(tmp[i])
       /\ \A k \in 2..Len(html_lines) : HeadingBlock(k) => html_lines[k - 1] = <<>>

\* the incremental runs so far had neither --only-email nor --today-only
DefaultRunsOnly == ~used.only_email /\ ~used.today_only

\* the row was created no later than the recorded last_sent_at: no later
\* default run fetches it
Behind(r) == last_sent_json # Absent /\ r.created_at <= last_sent_json

\* C16: over default incremental runs beside the crawler's inserts, every
\* row created after a recorded last_sent_at is among the rows of a run: a
\* row the recorded last_sent_at has passed was fetched by a run, also when
\* it was inserted during a run or in the second of a run's now.
C16_NoRecordMissed ==
    DefaultRunsOnly =>
        \A r \in annual_report_mda : r.id \in fresh /\ Behind(r) => r.id \in reported

\* C17: a run with --date leaves the state file as it was, in every step,
\* with or without --no-email and --only-email, with or without rows, with
\* or without an email sent.
C17_ManualRunLeavesLastSent ==
    [][Manual => last_sent_json' = last_sent_json]_vars

\* a --date run has fetched rows and written its PDF, the state file
\* recording a time before the run's now
C17_Witness ==
    /\ Manual
    /\ report_pc = "email"
    /\ rows # {}
    /\ last_sent_json # Absent
    /\ last_sent_json < now

\* no two rows of annual_reports for one stock_code and report_year
OneRowPerPair ==
    \A r, s \in annual_reports :
        r.stock_code = s.stock_code /\ r.report_year = s.report_year => r.id = s.id

\* the pair of the announcement in hand is stored
Stored ==
    /\ crawl_pc = "page"
    /\ announcements # <<>>
    /\ exists(annual_reports, Ann.secCode, YearOf(Ann.announcementTitle))

\* C18: over successive runs of the crawler and any announcements of the
\* two exchanges, annual_reports never holds two rows of one (stock_code,
\* report_year), and an announcement whose pair is stored is passed over
\* with no download and no insert.
C18_OneRowPerCompanyAndYear ==
    /\ []OneRowPerPair
    /\ [][Stored => /\ downloads' = downloads
                    /\ annual_reports' = annual_reports
                    /\ mda_report_id' = mda_report_id
                    /\ announcements' = Tail(announcements)]_vars

\* both pairs are stored, and the second exchange lists a stored report
\* under a file that was not downloaded
C18_Witness ==
    /\ Stored
    /\ col = "sse"
    /\ Cardinality(annual_reports) = 2
    /\ Ann.adjunctUrl \notin downloads

\* the contents gave no start page that was accepted
NoAcceptedCandidate == page_num = NoIndex \/ RejectedCandidate

\* the text of a page has the section-three marker, and no contents marker
MatchesMarker(page_text) ==
    /\ page_text # <<>>
    /\ ~Contains(page_text, S_MuLu)
    /\ ~Contains(page_text, S_Mu_Lu)
    /\ \E i \in 0..(Len(page_text) - 1) : SectionThreeAt(page_text, i) >= 0

\* the pages from s to 199 with such a text
MarkerPages(s) == {p \in s..(SCAN_PAGES - 1) : MatchesMarker(extract_text(pages, {p}))}

\* C19: with no accepted candidate from the contents, the start page is the
\* smallest page from scan_start (the page after the contents page, page 0
\* with none) to 199 whose text is not empty, holds no contents marker and
\* matches the section-three marker, and no start page when there is none;
\* a page with a contents marker is not chosen.
C19_ScanTakesFirstMarkerPage ==
    (PastLocator /\ NoAcceptedCandidate)
    => /\ scan_start = (IF toc_page # NoIndex THEN toc_page + 1 ELSE 0)
       /\ start_page = FirstOf(MarkerPages(scan_start))
       /\ start_page # NoIndex => ~HasTocMarker(extract_text(pages, {start_page}))

\* the scan passed over a page with the section-three marker and a contents
\* marker, and found the start page after it
C19_Witness ==
    /\ PastLocator
    /\ NoAcceptedCandidate
    /\ start_page # NoIndex
    /\ \E q \in scan_start..(start_page - 1) :
           /\ HasTocMarker(extract_text(pages, {q}))
           /\ SectionThreeSearch(extract_text(pages, {q})) >= 0

\* the lines of the text extract_section_by_keywords was called on
CalledLines == SplitFrom(text, 0)

\* the title of the heading that line i opens with a prefix ending at offset
\* after holds kw: on the line, or on the next line when line i is the
\* ordinal alone
TitleHolds(ls, i, after, kw) ==
    /\ after >= 0
    /\ \/ Contains(Slice(ls[i], after, Len(ls[i])), kw)
       \/ after = Len(ls[i]) /\ i < Len(ls) /\ Contains(ls[i + 1], kw)

\* the lines that open a heading of the kind with kw in its title
KeywordLinesOf(ls, kind, kw) ==
    {i \in 1..Len(ls) : TitleHolds(ls, i, PrefixEnd(ls[i], 0, kind), kw)}

\* the positions in the keyword list of the keywords some heading of the kind holds
Matching(ls, kind) ==
    {k \in 1..Len(future_keywords) : KeywordLinesOf(ls, kind, future_keywords[k]) # {}}

\* the heading of the kind the search settles on: the first one for the
\* first keyword of the list that has one; 0 when no keyword has one
HeadingLine(ls, kind) ==
    IF Matching(ls, kind) = {} THEN 0
    ELSE MinOf(KeywordLinesOf(ls, kind, future_keywords[MinOf(Matching(ls, kind))]))

\* the first line after line i that begins with an ordinal of one of the
\* kinds; one past the last line when there is none
SpanEnd(ls, i, kinds) ==
    MinOf({j \in (i + 1)..Len(ls) : \E kind \in kinds : PrefixEnd(ls[j], 0, kind) >= 0}
          \cup {Len(ls) + 1})

\* the lines from line i up to the line that ends the span
Span(ls, i, kinds) == JoinLines(SubSeq(ls, i, SpanEnd(ls, i, kinds) - 1))

KeywordsReturned == keyword_pc = "returned"

\* the bracketed strategy is the one that answered
BracketedStrategy ==
    /\ KeywordsReturned
    /\ HeadingLine(CalledLines, "seq") = 0
    /\ HeadingLine(CalledLines, "bracket") > 0

\* C20 as stated: when a sequential heading holds a keyword the span begins
\* at that heading, wherever the bracketed headings lie; otherwise the span
\* of the bracketed strategy ends at the next line that begins with a
\* bracketed ordinal or with a sequential ordinal and any of its delimiters,
\* and at the end of the text when there is none.
C20_SpanEndsAtAnySequentialHeading ==
    /\ (KeywordsReturned /\ HeadingLine(CalledLines, "seq") > 0)
       => StartsWith(extracted, CalledLines[HeadingLine(CalledLines, "seq")])
    /\ BracketedStrategy
       => extracted = Span(CalledLines, HeadingLine(CalledLines, "bracket"), {"bracket", "seq"})

\* C20, amended: when a sequential heading holds a keyword the span begins
\* at that heading, wherever the bracketed headings lie; otherwise the span
\* of the bracketed strategy ends at the next line that begins with a
\* bracketed ordinal or with a sequential ordinal followed by 、 (a
\* sequential ordinal followed by . ． : or ： does not end it), and at the
\* end of the text when there is none.
C20_SpanEndsAtBracketOrDunHaoHeading ==
    /\ (KeywordsReturned /\ HeadingLine(CalledLines, "seq") > 0)
       => StartsWith(extracted, CalledLines[HeadingLine(CalledLines, "seq")])
    /\ BracketedStrategy
       => extracted = Span(CalledLines, HeadingLine(CalledLines, "bracket"), {"bracket", "major"})

\* the bracketed strategy answered with a span that passes over 六：其他 and
\* ends at 六、其他
C20_Witness ==
    /\ BracketedStrategy
    /\ text = JoinLines(<<K_BracketPlan, K_Colon, K_Major>>)
    /\ extracted = JoinLines(<<K_BracketPlan, K_Colon>>)

\* w is text[a:b] for some a <= b of t
IsSubstringOf(w, t) == \E a \in 0..(Len(t) - Len(w)) : LitAt(t, a, w)

\* a boundary helper has returned from a call with 0 <= start_idx < len(text)
ReturnedFromStart == boundary_pc = "returned" /\ start_idx >= 0

\* the window is text[start_idx:end_idx].strip() for an end offset in range
WindowInRange ==
    /\ start_idx <= end_idx
    /\ end_idx <= Len(text)
    /\ window = Strip(Slice(text, start_idx, end_idx))
    /\ IsSubstringOf(window, Slice(text, start_idx, Len(text)))

\* C21 as stated: each of the four helpers, called with 0 <= start_idx <
\* len(text), computes an end offset with start_idx <= end_idx <= len(text)
\* and returns a substring of text[start_idx:]; called with None or a
\* negative start_idx it returns None.
C21_AlwaysAWindow ==
    /\ ReturnedFromStart => WindowInRange
    /\ (boundary_pc = "returned" /\ start_idx < 0) => window = None

\* the helpers that return None when no heading qualifies
ReturnsNoneWithoutHeading ==
    {"_slice_to_next_major_heading", "_slice_to_next_heading_with_title_keywords"}

\* C21, amended: called with 0 <= start_idx < len(text), a helper either
\* computes an end offset with start_idx < end_idx <= len(text) and returns
\* text[start_idx:end_idx] stripped, a substring of text[start_idx:], or, for
\* _slice_to_next_major_heading and _slice_to_next_heading_with_title_keywords
\* only, computes no end offset and returns None; called with None or a
\* negative start_idx every helper returns None.
C21_WindowOrNone ==
    /\ ReturnedFromStart
       => \/ WindowInRange /\ start_idx < end_idx
          \/ /\ helper \in ReturnsNoneWithoutHeading
             /\ end_idx = NoIndex
             /\ window = None
    /\ (boundary_pc = "returned" /\ start_idx < 0) => window = None

\* _slice_to_next_ordinal, called in the middle of the text, returned a
\* window that ends before the end of the text
C21_Witness ==
    /\ ReturnedFromStart
    /\ helper = "_slice_to_next_ordinal"
    /\ start_idx > 0
    /\ end_idx < Len(text)
    /\ WindowInRange
    /\ window # <<>>

\* the physical lines of the text normalize was called on, trimmed
TrimmedLines == StripAll(SplitFrom(text, 0))

\* a line of digits only
AllDigits(s) == s # <<>> /\ \A i \in 1..Len(s) : s[i] \in Digits

\* digits, a slash, digits, with blanks around the slash at most; each run of
\* at most max digits
DigitsSlashDigits(s, max) ==
    \E k \in 1..Len(s) :
        /\ s[k] = 47
        /\ AllDigits(Strip(SubSeq(s, 1, k - 1)))
        /\ AllDigits(Strip(SubSeq(s, k + 1, Len(s))))
        /\ Len(Strip(SubSeq(s, 1, k - 1))) <= max
        /\ Len(Strip(SubSeq(s, k + 1, Len(s)))) <= max

\* the rules 4 and 6 to 9 of the filter, and rule 1
SharedRules(s) ==
    \/ s = <<>>
    \/ Contains(s, S_NianDuBaoGao) /\ Contains(s, S_GuFenYouXianGongSi)
    \/ Len(s) <= 30 /\ (EndsWith(s, S_GuFenYouXianGongSi) \/ EndsWith(s, S_YouXianGongSi))
    \/ Len(s) <= 20 /\ Contains(s, S_NianDuBaoGao)
    \/ Len(s) >= 3 /\ \A i \in 1..Len(s) : s[i] \in {45, 43, 124}
    \/ Contains(s, S_NianDuBaoGaoQuanWen)

\* the nine rules as stated: any line of digits, any digits/digits, either
\* label anywhere in the line
StatedRules(s) ==
    \/ SharedRules(s)
    \/ AllDigits(s)
    \/ DigitsSlashDigits(s, Len(s))
    \/ Contains(s, S_GongSiDaiMa) \/ Contains(s, S_GongSiJianCheng)

\* the nine rules with numbers of one to four digits, the company-code label
\* anywhere and the short-name label at the beginning of the line
NarrowRules(s) ==
    \/ SharedRules(s)
    \/ AllDigits(s) /\ Len(s) <= 4
    \/ DigitsSlashDigits(s, 4)
    \/ Contains(s, S_GongSiDaiMa) \/ StartsWith(s, S_GongSiJianCheng)

WithoutSpaces(s) == SelectSeq(s, LAMBDA c : c # SP)

RECURSIVE KeptFrom(_, _, _)
\* the trimmed lines from line i on that the rules do not match (narrow:
\* NarrowRules, else StatedRules), without their spaces, in order
KeptFrom(ls, i, narrow) ==
    IF i > Len(ls) THEN <<>>
    ELSE (IF (narrow /\ NarrowRules(ls[i])) \/ (~narrow /\ StatedRules(ls[i])) THEN <<>>
          ELSE <<WithoutSpaces(ls[i])>>)
         \o KeptFrom(ls, i + 1, narrow)

\* C22 as stated: normalize returns the lines that match none of the nine
\* rules, in order, joined by single newlines.
C22_DropsByStatedRules ==
    normalize_pc # "call" => normalized = JoinLines(KeptFrom(TrimmedLines, 1, FALSE))

\* C22, amended: normalize returns the lines that match none of the nine
\* rules, where rule 2 is a number of one to four digits, rule 3 two such
\* numbers around a slash and rule 5 the company-code label anywhere or the
\* short-name label at the beginning of the line; each line trimmed and
\* without its spaces, in order, joined by single newlines.
C22_DropsByNarrowRules ==
    normalize_pc # "call" => normalized = JoinLines(KeptFrom(TrimmedLines, 1, TRUE))

\* a line with the short-name label inside is kept, the line that begins
\* with the label is dropped
C22_Witness ==
    /\ normalize_pc = "once"
    /\ text = JoinLines(<<D_ShortNameInside, D_ShortName>>)
    /\ normalized = D_ShortNameInside

\* a body line, or a paragraph made of body lines: not blank, not a heading
IsBody(s) == s # <<>> /\ ~heading_re(s)

\* the paragraphs of body lines among paras, in order
BodyParagraphs == SelectSeq(paras, IsBody)

\* line a opens a paragraph: a body line that comes first, after a heading,
\* or after a body line that ends in terminal punctuation
OpensParagraph(ls, a) ==
    /\ IsBody(ls[a])
    /\ a = 1 \/ ~IsBody(ls[a - 1]) \/ EndsIn(ls[a - 1], EndPunct)

\* the last line of the paragraph that line a opens
ClosesAt(ls, a) ==
    MinOf({b \in a..Len(ls) : b = Len(ls) \/ ~IsBody(ls[b + 1]) \/ EndsIn(ls[b], EndPunct)})

\* the line that opens the paragraph number j
OpenerNo(ls, j) ==
    CHOOSE a \in 1..Len(ls) :
        /\ OpensParagraph(ls, a)
        /\ Cardinality({x \in 1..(a - 1) : OpensParagraph(ls, x)}) = j - 1

\* the paragraphs were made from the lines
ParagraphsMade == reflow_pc \in {"render", "done"}

\* C23: a body line that follows a body line joins its paragraph, with no
\* separator, exactly when the text before it does not end in terminal
\* punctuation; so the paragraphs of body lines are, in order, the runs of
\* body lines that such joins make, a paragraph directly followed by a
\* paragraph ends in terminal punctuation, and the paragraphs hold the
\* characters of the body lines in their order.
C23_BodyLinesJoinUnlessSentenceEnds ==
    ParagraphsMade
    => /\ Len(BodyParagraphs) = Cardinality({a \in 1..Len(lines) : OpensParagraph(lines, a)})
       /\ \A j \in 1..Len(BodyParagraphs) :
            BodyParagraphs[j] =
                Glued(SubSeq(lines, OpenerNo(lines, j), ClosesAt(lines, OpenerNo(lines, j))))
       /\ \A i \in 1..(Len(paras) - 1) :
            IsBody(paras[i]) /\ IsBody(paras[i + 1]) => EndsIn(paras[i], EndPunct)
       /\ Glued(BodyParagraphs) = Glued(SelectSeq(lines, IsBody))

\* a body line joined the line before it and the next one opened a new
\* paragraph
C23_Witness ==
    /\ reflow_pc = "done"
    /\ Len(lines) = 3
    /\ \A k \in 1..3 : IsBody(lines[k])
    /\ ~EndsIn(lines[1], EndPunct)
    /\ EndsIn(lines[2], EndPunct)
    /\ paras = <<lines[1] \o lines[2], lines[3]>>

\* an incremental run is in progress
Incremental == report_pc # "idle" /\ ~Manual

\* the run ends with this step
RunEnds == report_pc # "idle" /\ report_pc' = "idle"

\* the query of the run finds no row
NoNewRows == report_pc = "fetch" /\ ~args.only_email /\ Fetched = {}

\* the run is at the email step and the PDF of the day is there
PdfReady == report_pc = "email" /\ OutPdf(args, now) \in pdf_files

\* --only-email and no PDF of the day
NoPdfToSend == report_pc = "fetch" /\ args.only_email /\ OutPdf(args, now) \notin pdf_files

\* C24: in an incremental run the state file changes only with the step
\* that ends the run, to the run's now, after a query that found no row or
\* at the email step with the PDF of the day there; a run that finds no
\* row, and a run with --no-email that reaches the email step, write now;
\* a run that ends for want of the PDF with --only-email, for want of a
\* recipient, or with the send failing leaves the state file as it was.
C24_StateFileWrittenOnSuccessOnly ==
    [][Incremental =>
         /\ last_sent_json' # last_sent_json
            => RunEnds /\ last_sent_json' = now /\ (NoNewRows \/ PdfReady)
         /\ (RunEnds /\ (NoNewRows \/ (PdfReady /\ args.no_email))) => last_sent_json' = now
         /\ (RunEnds /\ NoPdfToSend) => last_sent_json' = last_sent_json
         /\ NoRecipient => last_sent_json' = last_sent_json
         /\ SendFails => last_sent_json' = last_sent_json]_vars

\* an incremental run with email allowed is at the email step, later than
\* the time in the state file: the send can succeed, fail or find no recipient
C24_Witness ==
    /\ Incremental
    /\ PdfReady
    /\ ~args.no_email
    /\ ~args.only_email
    /\ rows # {}
    /\ last_sent_json # Absent
    /\ last_sent_json < now

\* the run is in the paging of the exchange c
Paging(c) == crawl_pc # "idle" /\ col = c

\* C25: in every run the page requested is one of the first MAX_PAGE pages
\* and the attempt one of the first MAX_RETRY; the failure of the last
\* attempt ends the paging of the exchange; and whatever the server
\* answers, the paging of the first exchange gives way to the second and
\* the paging of the second to the end of the run.
C25_PagingTerminates ==
    /\ [](page \in 1..MAX_PAGE /\ attempt \in 1..MAX_RETRY)
    /\ [][(RequestFails /\ attempt = MAX_RETRY) => (col' # col /\ page' = 1)]_vars
    /\ Paging("szse") ~> Paging("sse")
    /\ Paging("sse") ~> (crawl_pc = "idle")

\* page 50 of the second exchange is requested for the third time
C25_Witness ==
    /\ Paging("sse")
    /\ crawl_pc = "request"
    /\ page = MAX_PAGE
    /\ attempt = MAX_RETRY

\* the time after which an incremental run that starts at time t fetches
Checkpoint(lsj, t) == IF lsj = Absent THEN Midnight(t) ELSE lsj

\* the rows that an incremental run after time t will fetch, by id
StillToFetch(table, lsj, t) == {r.id : r \in {x \in table : x.created_at > Checkpoint(lsj, t)}}

\* an incremental run with --only-email or --no-email, without --today-only
QuietRun == Incremental /\ ~args.today_only /\ (args.only_email \/ args.no_email)

\* C26: a step of an incremental run with --only-email or --no-email that
\* writes the state file takes no row out of what later incremental runs will
\* fetch, unless a PDF holds the row.
C26_QuietRunsHideNothing ==
    [][(QuietRun /\ last_sent_json' # last_sent_json) =>
         \A id \in StillToFetch(annual_report_mda, last_sent_json, now) :
             \/ id \in StillToFetch(annual_report_mda', last_sent_json', now)
             \/ id \in printed']_vars

====
